---- MODULE Spec2Model ----
(***************************************************************************)
(* Event-generation pipeline of event-generator-ai:                        *)
(*   - the text extraction done inside the three question generators,      *)
(*   - the bounded retry loops of the generation steps,                    *)
(*   - the parent/child persistence of main.py,                            *)
(*   - the quota-aware image-search wrapper of main.py.                    *)
(*                                                                         *)
(* A model completion is a sequence of tokens.  A token is one of the      *)
(* section markers, one "name: number" probability entry, or a chunk of    *)
(* free text.  str.find, slicing and the regular expressions of the code   *)
(* are computed on that sequence.                                          *)
(***************************************************************************)
EXTENDS Integers, Sequences, FiniteSets, TLC

\* ------------------------------------------------------------------------
\* Bounds of the model
\* ------------------------------------------------------------------------
\* largest number of probability entries in a generated completion
MaxProbs == 3
\* largest max_retries argument a generation step is called with
MaxRetries == 3
\* largest number of options of a persisted multi-option item
MaxOptions == 3
\* number of items one run processes
MaxItems == 1

\* ------------------------------------------------------------------------
\* Program constants
\* ------------------------------------------------------------------------
DEFAULT_RETRY_COUNT == 3
DEFAULT_RETRY_DELAY == 2

\* ------------------------------------------------------------------------
\* Python values: None, int, str (a token sequence), list
\* ------------------------------------------------------------------------
None == [tag |-> "None"]
PyInt(n) == [tag |-> "int", n |-> n]
PyStr(s) == [tag |-> "str", s |-> s]
PyList(l) == [tag |-> "list", l |-> l]

\* Python truthiness of a value
Truthy(v) ==
    CASE v.tag = "None" -> FALSE
      [] v.tag = "int" -> v.n # 0
      [] v.tag = "str" -> v.s # << >>
      [] v.tag = "list" -> v.l # << >>

\* ------------------------------------------------------------------------
\* Tokens of a completion
\* ------------------------------------------------------------------------
Marker(name) == [kind |-> "marker", name |-> name, number |-> 0]
\* "name: number", with or without a trailing percent sign
Entry(name, n) == [kind |-> "entry", name |-> name, number |-> n]
\* free text that ends with punctuation and holds no "name: number"
Text(name) == [kind |-> "text", name |-> name, number |-> 0]

GQ == Marker("Generated Question:")
PR == Marker("Probability:")
MRD == Marker("Market Resolution Date:")
ED == Marker("Event Description:")

\* a sentence that ends with a question mark
QSentence == Text("Will Alpha win?")
\* another one
QSentence2 == Text("Or will Beta win?")
\* a line break inside the text
NewLine == [kind |-> "newline", name |-> "", number |-> 0]
\* free text without a question mark
Commentary == Text("Commentary.")
\* a date text
DateText == Text("2026-12-01")
\* a resolution date in none of the formats parse_date reads
VagueDate == Text("December 2026")

ProbTokens ==
    { Entry("Yes", 60), Entry("No", 40), Entry("No", 50),
      Entry("Alpha", 50), Entry("Beta", 30), Entry("Gamma", 20), Entry("Other Team", 20) }

IsYes(tok) == tok.kind = "entry" /\ tok.name = "Yes"
IsNo(tok) == tok.kind = "entry" /\ tok.name = "No"

\* str.lower on option names
Lower(name) ==
    CASE name = "Yes" -> "yes"
      [] name = "No" -> "no"
      [] name = "Alpha" -> "alpha"
      [] name = "Beta" -> "beta"
      [] name = "Gamma" -> "gamma"
      [] name = "Delta" -> "delta"
      [] name = "Epsilon" -> "epsilon"
      [] name = "Other Team" -> "other team"
      [] name = "Market Resolution Date" -> "market resolution date"

\* the placeholder names refused by generate_multiple_question
VagueNames == {"field", "any other team", "others", "other team"}

\* ------------------------------------------------------------------------
\* Sequence helpers
\* ------------------------------------------------------------------------
RECURSIVE SeqsUpTo(_, _)
SeqsUpTo(S, n) ==
    IF n = 0 THEN {<< >>}
    ELSE LET shorter == SeqsUpTo(S, n - 1)
         IN shorter \cup {Append(s, x) : s \in {t \in shorter : Len(t) = n - 1}, x \in S}

Range(s) == {s[i] : i \in 1..Len(s)}

\* str.find on tokens: index of the first occurrence, 0 when absent
Find(data, tok) ==
    IF tok \in Range(data)
    THEN CHOOSE i \in 1..Len(data) : data[i] = tok /\ \A j \in 1..(i - 1) : data[j] # tok
    ELSE 0

\* data[a:b] on tokens, a and b being 1-based token positions, b exclusive
Slice(data, a, b) == SubSeq(data, a, b - 1)

RECURSIVE SumProb(_)
SumProb(opts) ==
    IF opts = << >> THEN 0 ELSE opts[1].probability + SumProb(Tail(opts))

\* ------------------------------------------------------------------------
\* Completions the model stub can return
\* ------------------------------------------------------------------------
QBodies ==
    {<< >>, <<QSentence>>, <<QSentence, Commentary>>, <<QSentence, QSentence2>>,
     <<Commentary, NewLine, QSentence>>}
PBodies == SeqsUpTo(ProbTokens, MaxProbs)
DBodies == {<< >>, <<DateText>>}
EBodies == {<< >>, <<ED>>, <<ED, Commentary>>}
Shapes == {"full", "noGQ", "noPR", "noMRD", "dateFirst", "plain"}

TextOf(shape, qb, pb, db, eb) ==
    CASE shape = "full" -> <<GQ>> \o qb \o <<PR>> \o pb \o <<MRD>> \o db \o eb
      [] shape = "noGQ" -> qb \o <<PR>> \o pb \o <<MRD>> \o db \o eb
      [] shape = "noPR" -> <<GQ>> \o qb \o pb \o <<MRD>> \o db \o eb
      [] shape = "noMRD" -> <<GQ>> \o qb \o <<PR>> \o pb \o db \o eb
      [] shape = "dateFirst" -> <<GQ>> \o qb \o <<MRD>> \o db \o <<PR>> \o pb \o eb
      [] shape = "plain" -> qb \o pb \o db

Texts == {TextOf(sh, qb, pb, db, eb) :
            sh \in Shapes, qb \in QBodies, pb \in PBodies, db \in DBodies, eb \in EBodies}

\* ------------------------------------------------------------------------
\* Regular expressions of the generators, on tokens
\* ------------------------------------------------------------------------
\* re.search(r'Yes\s*:\s*(\d+)', section): the position of the first Yes
\* entry, 0 when there is none
SearchYes(section) ==
    IF \E i \in 1..Len(section) : IsYes(section[i])
    THEN CHOOSE i \in 1..Len(section) :
            IsYes(section[i]) /\ \A j \in 1..(i - 1) : ~IsYes(section[j])
    ELSE 0

\* re.search(r'No\s*:\s*(\d+)', section)
SearchNo(section) ==
    IF \E i \in 1..Len(section) : IsNo(section[i])
    THEN CHOOSE i \in 1..Len(section) :
            IsNo(section[i]) /\ \A j \in 1..(i - 1) : ~IsNo(section[j])
    ELSE 0

\* re.findall(r"([\w']+(?:\s[\w']+)*):\s*(\d+)", section): every
\* "name: digits" of the section, in order.  A date marker directly followed
\* by a date text is such a match too ("Market Resolution Date: 2026").
RECURSIVE OptionMatches(_)
OptionMatches(section) ==
    IF section = << >> THEN << >>
    ELSE IF section[1].kind = "entry"
         THEN <<[option |-> section[1].name, probability |-> section[1].number]>>
                \o OptionMatches(Tail(section))
         ELSE IF section[1] = MRD /\ Len(section) > 1 /\ section[2] = DateText
              THEN <<[option |-> "Market Resolution Date", probability |-> 2026]>>
                     \o OptionMatches(Tail(section))
              ELSE OptionMatches(Tail(section))

HasQuestionMark(tok) == tok \in {QSentence, QSentence2}

\* the first line of q that holds a question mark, as <<first, last>>
\* positions: "." does not match a line break, so a match of '.*\?' or
\* '.*?\?' lies within one line, and re.search returns the leftmost one
QuestionLine(q) ==
    LET i == CHOOSE i \in 1..Len(q) :
                 HasQuestionMark(q[i]) /\ \A j \in 1..(i - 1) : ~HasQuestionMark(q[j])
        breaks_before == {j \in 1..(i - 1) : q[j] = NewLine}
        breaks_after == {j \in (i + 1)..Len(q) : q[j] = NewLine}
        first == IF breaks_before = {} THEN 1
                 ELSE 1 + CHOOSE j \in breaks_before : \A k \in breaks_before : k <= j
        last == IF breaks_after = {} THEN Len(q)
                ELSE (CHOOSE j \in breaks_after : \A k \in breaks_after : j <= k) - 1
    IN <<first, last>>

\* re.search(r'.*\?', q): greedy, the line up to its last question mark
GreedyQuestion(q) ==
    IF \E i \in 1..Len(q) : HasQuestionMark(q[i])
    THEN LET line == QuestionLine(q)
         IN SubSeq(q, line[1], CHOOSE i \in line[1]..line[2] :
                        HasQuestionMark(q[i]) /\ \A j \in (i + 1)..line[2] : ~HasQuestionMark(q[j]))
    ELSE q

\* re.search(r'.*?\?', q): lazy, the line up to its first question mark
LazyQuestion(q) ==
    IF \E i \in 1..Len(q) : HasQuestionMark(q[i])
    THEN LET line == QuestionLine(q)
         IN SubSeq(q, line[1], CHOOSE i \in line[1]..line[2] :
                        HasQuestionMark(q[i]) /\ \A j \in line[1]..(i - 1) : ~HasQuestionMark(q[j]))
    ELSE q

\* a binary pair skipping the sum test
ValidBinary_NoSumTest(yes_probability, no_probability) ==
    0 <= yes_probability /\ yes_probability <= 100

\* the test both binary generators apply to the Yes/No pair
ValidBinary(yes_probability, no_probability) ==
    yes_probability + no_probability = 100 /\ 0 <= yes_probability /\ yes_probability <= 100

AllInRange(opts) == \A i \in 1..Len(opts) : 0 <= opts[i].probability /\ opts[i].probability <= 100

NoFieldOption(opts) == \A i \in 1..Len(opts) : Lower(opts[i].option) \notin VagueNames

\* ------------------------------------------------------------------------
\* The parse of one completion.  [retry |-> TRUE] means the attempt falls
\* through to the sleep at the bottom of the loop; otherwise result is the
\* tuple the function returns.
\* ------------------------------------------------------------------------
NoResult4 == <<None, None, None, None>>
NoResult5 == <<None, None, None, None, None>>
Retry == [retry |-> TRUE, result |-> NoResult4]
\* a return that leaves the third element of the result unset
Return_ProbNoUnset(t) == [retry |-> FALSE, result |-> [t EXCEPT ![3] = None]]

Return(t) == [retry |-> FALSE, result |-> t]

\* the text between "Generated Question:" and "Probability:" (or the end)
QuestionPart(data) ==
    Slice(data, Find(data, GQ) + 1,
          IF PR \in Range(data) THEN Find(data, PR) ELSE Len(data) + 1)

\* QuestionGeneratorService.generate_question, the parse of response.content
ParseQuestion(data) ==
    IF GQ \in Range(data) /\ MRD \in Range(data)
    THEN LET generated_question == PyStr(GreedyQuestion(QuestionPart(data)))
             end_date == PyStr(Slice(data, Find(data, MRD) + 1, Len(data) + 1))
             prob_index == Find(data, PR)
             probability_section == Slice(data, prob_index + 1, Find(data, MRD))
             binary_yes == SearchYes(probability_section)
             binary_no == SearchNo(probability_section)
             yes_probability == probability_section[binary_yes].number
             no_probability == probability_section[binary_no].number
             option_array == OptionMatches(probability_section)
         IN IF prob_index # 0
            THEN IF binary_yes # 0 /\ binary_no # 0
                 THEN IF ValidBinary(yes_probability, no_probability)
                      THEN Return(<<generated_question, PyInt(yes_probability),
                                    PyInt(no_probability), end_date>>)
                      ELSE Return(NoResult4)
                 ELSE IF option_array # << >>
                            /\ SumProb(option_array) = 100 /\ AllInRange(option_array)
                      THEN Return(<<generated_question, PyList(option_array), None, end_date>>)
                      ELSE Return(NoResult4)
            ELSE Return(NoResult4)
    ELSE Retry

\* the text after "Event Description:", None when the marker is absent
DescriptionPart(data) ==
    IF ED \in Range(data)
    THEN PyStr(Slice(data, Find(data, ED) + 1, Len(data) + 1))
    ELSE None

\* SportsApiService.generate_question_from_api, the parse of response.content;
\* end_date is the fixture's date, never read from the completion
ParseQuestionFromApi(data, end_date) ==
    IF GQ \in Range(data)
    THEN LET generated_question == PyStr(GreedyQuestion(QuestionPart(data)))
             event_description == DescriptionPart(data)
             prob_index == Find(data, PR)
             market_date_index == IF MRD \in Range(data) THEN Find(data, MRD) ELSE Len(data) + 1
             probability_section == Slice(data, prob_index + 1, market_date_index)
             binary_yes == SearchYes(probability_section)
             binary_no == SearchNo(probability_section)
             yes_probability == probability_section[binary_yes].number
             no_probability == probability_section[binary_no].number
             partial == IF Truthy(generated_question) /\ Truthy(event_description)
                        THEN Return(<<generated_question, None, None, end_date, event_description>>)
                        ELSE Return(NoResult5)
         IN IF prob_index # 0
            THEN IF binary_yes # 0 /\ binary_no # 0
                 THEN IF ValidBinary(yes_probability, no_probability)
                      THEN Return(<<generated_question, PyInt(yes_probability),
                                    PyInt(no_probability), end_date, event_description>>)
                      ELSE partial
                 ELSE Return(NoResult5)
            ELSE partial
    ELSE Retry

\* SportsApiService.generate_multiple_question, the parse of response.content.
\* find returns -1 for a missing "Probability:", so the section then starts
\* at character 11 of the text, inside its first token.
ParseMultipleQuestion(data) ==
    IF GQ \in Range(data)
    THEN LET generated_question == PyStr(LazyQuestion(QuestionPart(data)))
             event_description == DescriptionPart(data)
             prob_index == Find(data, PR)
             event_desc_index == Find(data, ED)
             section_start == IF prob_index = 0 THEN 2 ELSE prob_index + 1
             probability_section ==
                 IF event_desc_index > 1
                 THEN Slice(data, section_start, event_desc_index)
                 ELSE Slice(data, section_start, Len(data) + 1)
             option_array == OptionMatches(probability_section)
         IN IF option_array # << >>
                 /\ SumProb(option_array) = 100 /\ AllInRange(option_array)
                 /\ NoFieldOption(option_array)
            THEN Return(<<generated_question, PyList(option_array), None, event_description>>)
            ELSE Retry
    ELSE Retry

\* ------------------------------------------------------------------------
\* generate_rules and generate_followup_question: the handling of one
\* completion
\* ------------------------------------------------------------------------
RulesEcho == Text("Rules:")
RulesBold == Text("**Rules**")
RulesBody == Text("The market resolves on the official result.")

\* the three re.sub calls of generate_rules on one token
CleanToken(tok) ==
    CASE tok = RulesBold -> << >>
      [] tok = RulesEcho -> << >>
      [] OTHER -> <<tok>>

RECURSIVE CleanRules(_)
CleanRules(text) ==
    IF text = << >> THEN << >> ELSE CleanToken(text[1]) \o CleanRules(Tail(text))

\* QuestionGeneratorService.generate_rules, the body of the try block after
\* the model call: the cleaned text, or None when cleaning leaves nothing
ParseRules(content) ==
    LET cleaned == CleanRules(content)
    IN IF cleaned # << >> THEN Return(PyStr(cleaned)) ELSE Return(None)

Statement == Text("Alpha will win")
QuestionMark == Text("?")

\* str.endswith('?') on tokens
EndsWithQuestionMark(text) ==
    text # << >> /\ (HasQuestionMark(text[Len(text)]) \/ text[Len(text)] = QuestionMark)

\* QuestionGeneratorService.generate_followup_question, the body of the try
\* block after the model call; an empty completion raises ValueError, which
\* the except clause turns into a new attempt
ParseFollowup(content) ==
    IF content = << >>
    THEN Retry
    ELSE IF EndsWithQuestionMark(content)
         THEN Return(PyStr(content))
         ELSE Return(PyStr(Append(content, QuestionMark)))

\* ------------------------------------------------------------------------
\* The stub of the language model: what one invoke can answer
\* ------------------------------------------------------------------------
RAISE == <<[kind |-> "raise", name |-> "Exception", number |-> 0]>>

FixtureDate == PyStr(<<Text("2026-12-01 18:00:00")>>)

QuestionFns == {"generate_question", "generate_question_from_api", "generate_multiple_question"}
GenerationFns == QuestionFns \cup {"generate_rules", "generate_followup_question"}

StubTexts ==
    { TextOf("plain", << >>, << >>, << >>, << >>),
      TextOf("full", <<QSentence>>, <<Entry("Yes", 60), Entry("No", 40)>>, <<DateText>>, << >>),
      TextOf("full", <<QSentence>>, <<Entry("Yes", 60), Entry("No", 50)>>, <<DateText>>,
             <<ED, Commentary>>),
      TextOf("full", <<QSentence>>, <<Entry("Alpha", 50), Entry("Beta", 30), Entry("Gamma", 20)>>,
             <<DateText>>, << >>),
      TextOf("noMRD", <<QSentence>>, <<Entry("Alpha", 50), Entry("Beta", 30), Entry("Gamma", 20)>>,
             << >>, <<ED, Commentary>>),
      TextOf("noMRD", <<QSentence>>,
             <<Entry("Alpha", 50), Entry("Beta", 30), Entry("Other Team", 20)>>,
             << >>, <<ED, Commentary>>) }

StubResponses(f) ==
    CASE f \in QuestionFns -> StubTexts \cup {RAISE}
      [] f = "generate_rules" -> {<< >>, <<RulesEcho>>, <<RulesBold, RulesBody>>, RAISE}
      [] f = "generate_followup_question" -> {<< >>, <<QSentence>>, <<Statement>>, RAISE}

\* the parse each generation step applies to a completion
ParseOf(f, content) ==
    CASE f = "generate_question" -> ParseQuestion(content)
      [] f = "generate_question_from_api" -> ParseQuestionFromApi(content, FixtureDate)
      [] f = "generate_multiple_question" -> ParseMultipleQuestion(content)
      [] f = "generate_rules" -> ParseRules(content)
      [] f = "generate_followup_question" -> ParseFollowup(content)

\* the value each generation step returns after the loop
NoResultOf(f) ==
    CASE f = "generate_question" -> NoResult4
      [] f = "generate_question_from_api" -> NoResult5
      [] f = "generate_multiple_question" -> NoResult4
      [] f = "generate_rules" -> None
      [] f = "generate_followup_question" -> None

\* ------------------------------------------------------------------------
\* Image search wrapper of main.py
\* ------------------------------------------------------------------------
\* int(os.getenv("MAX_IMAGE_SEARCHES_PER_RUN", "200")), set low for the run
MAX_IMAGE_SEARCHES_PER_RUN == 3

\* what the call of google_image_search inside the wrapper can do: return a
\* link, return None, raise HTTPError with status 429, raise HTTPError with
\* another status, raise another exception
SearchOutcomes == {"url", "none", "http429", "http_error", "error"}

ImageUrl == PyStr(<<Text("https://images.example/alpha.jpg")>>)
StoredUrl == PyStr(<<Text("https://bucket.s3.amazonaws.com/alpha.jpg")>>)

\* the wrapper without the test of the disabled flag
SafeGoogleImageSearch_NoFlagTest(disabled, count, outcome) ==
    IF count >= MAX_IMAGE_SEARCHES_PER_RUN
    THEN [ret |-> None, disabled |-> disabled, count |-> count, invoked |-> FALSE]
    ELSE [ret |-> IF outcome = "url" THEN ImageUrl ELSE None,
          disabled |-> (disabled \/ outcome = "http429"),
          count |-> count + 1,
          invoked |-> TRUE]

\* the wrapper without the test of the per-run cap
SafeGoogleImageSearch_NoCapTest(disabled, count, outcome) ==
    IF disabled
    THEN [ret |-> None, disabled |-> disabled, count |-> count, invoked |-> FALSE]
    ELSE [ret |-> IF outcome = "url" THEN ImageUrl ELSE None,
          disabled |-> (outcome = "http429"),
          count |-> count + 1,
          invoked |-> TRUE]

\* safe_google_image_search: the value returned, the two globals after the
\* call, and whether google_image_search was invoked
SafeGoogleImageSearch(disabled, count, outcome) ==
    IF disabled
    THEN [ret |-> None, disabled |-> disabled, count |-> count, invoked |-> FALSE]
    ELSE IF count >= MAX_IMAGE_SEARCHES_PER_RUN
         THEN [ret |-> None, disabled |-> disabled, count |-> count, invoked |-> FALSE]
         ELSE [ret |-> IF outcome = "url" THEN ImageUrl ELSE None,
               disabled |-> (outcome = "http429"),
               count |-> count + 1,
               invoked |-> TRUE]

\* upload_image_to_s3: the stored URL, None, or an exception
UploadOutcomes == {"stored", "none", "raise"}

\* event_image after "if image_url: try: upload ... except: log"
EventImage(image, upload) ==
    IF Truthy(image) /\ upload = "stored" THEN StoredUrl ELSE None

\* ------------------------------------------------------------------------
\* Items of a run
\* ------------------------------------------------------------------------
OptionNames == <<"Alpha", "Beta", "Gamma", "Delta", "Epsilon">>
Splits == <<<<100>>, <<50, 50>>, <<50, 30, 20>>, <<40, 30, 20, 10>>, <<40, 25, 20, 10, 5>>>>
OptionBody(n) == [i \in 1..n |-> Entry(OptionNames[i], Splits[n][i])]
BinaryBody == <<Entry("Yes", 60), Entry("No", 40)>>
NoMarkers == TextOf("plain", << >>, << >>, << >>, << >>)

\* completions answered to generate_question for a scraped page
RegularTexts ==
    { NoMarkers,
      TextOf("full", <<QSentence>>, BinaryBody, <<DateText>>, << >>),
      TextOf("full", <<QSentence>>, BinaryBody, << >>, << >>),
      TextOf("full", <<QSentence>>, BinaryBody, <<VagueDate>>, << >>),
      TextOf("full", <<QSentence>>, OptionBody(2), <<VagueDate>>, << >>) }
    \cup {TextOf("full", <<QSentence>>, OptionBody(n), <<DateText>>, << >>) : n \in 1..MaxOptions}

\* completions answered to generate_question_from_api for a fixture
SportTexts ==
    { NoMarkers,
      TextOf("full", <<QSentence>>, BinaryBody, <<DateText>>, <<ED, Commentary>>),
      TextOf("full", <<QSentence>>, BinaryBody, <<DateText>>, << >>),
      TextOf("full", <<QSentence>>, <<Entry("Yes", 60), Entry("No", 50)>>, <<DateText>>,
             <<ED, Commentary>>) }

\* completions answered to generate_multiple_question for a fixture without
\* teams
NullTeamTexts ==
    { NoMarkers, TextOf("noMRD", <<QSentence>>, OptionBody(1), << >>, << >>) }
    \cup {TextOf("noMRD", <<QSentence>>, OptionBody(n), << >>, <<ED, Commentary>>) :
            n \in 1..MaxOptions}

\* what a generation step returns when the completion t ends its loop
Generated(f, t) ==
    IF ParseOf(f, t).retry THEN NoResultOf(f) ELSE ParseOf(f, t).result

\* what generate_question, generate_question_from_api and
\* generate_multiple_question return for those completions
RegularResults == {Generated("generate_question", t) : t \in RegularTexts}
SportResults == {Generated("generate_question_from_api", t) : t \in SportTexts}
NullTeamResults == {Generated("generate_multiple_question", t) : t \in NullTeamTexts}

\* values generate_rules and generate_followup_question return
RulesResults == {None, PyStr(<<RulesBody>>)}
FollowupResults == {None, PyStr(<<QSentence>>)}

SummaryText == PyStr(<<Text("Summary.")>>)

\* parse_date: the date found in the text, None when there is none
ParseDate(end_date) ==
    IF DateText \in Range(end_date.s) THEN PyStr(<<DateText>>) ELSE None

\* the pydantic validation of EventData: title and event_description are
\* required strings
ValidEventData(title, event_description) ==
    title.tag = "str" /\ event_description.tag = "str"

NoItem ==
    [path |-> "none", kind |-> "none", question |-> None, prob1 |-> None, prob2 |-> None,
     end_date |-> None, description |-> None]

\* ------------------------------------------------------------------------
\* State
\* ------------------------------------------------------------------------
VARIABLES
    data,          \* extraction: the completion being parsed
    parser,        \* extraction: the generator whose parse was applied
    extraction,    \* extraction: what that parse gave
    fn,            \* generation step in progress
    max_retries,   \* its max_retries argument
    stub,          \* the answers of the model stub, one per attempt
    attempt,       \* the loop variable of "for attempt in range(max_retries)"
    invocations,   \* number of openai_model.invoke calls made
    sleeps,        \* number of asyncio.sleep(delay) calls made
    gpc,           \* "idle", "loop" or "returned"
    result,        \* the value returned by the generation step
    IMAGE_SEARCH_DISABLED,   \* module global of main.py
    IMAGE_SEARCH_COUNT,      \* module global of main.py
    image_searches,          \* number of google_image_search calls made
    wrapper_calls,           \* safe_google_image_search calls made for the item
    image_url,               \* local of the save functions: the wrapper's answer
    store,         \* the documents the item in progress has inserted, by id
    item,          \* the item in progress, with its generation result
    ppc,           \* "next", "binary", "parent" or "children"
    parent_event_id,
    option_index,  \* position of the for loop over the options
    updated_options,
    ops,           \* store operations and failed constructions of the item
    outcome,       \* how the last item ended
    processed,     \* number of items finished
    spc,           \* image search: "idle", or "search" inside search_image
    search_attempt,          \* loop variable of search_image
    requests_made,           \* requests.get calls sent to the search provider
    quota_hit,     \* the provider has answered a request with HTTP 429
    phase,         \* run: "cleanup", "categories", "collect", "sports_team",
                   \* "sports_null", "events", "done" or "fatal"
    organized_events,        \* how the processing of each fixture with teams ends
    null_team_events,        \* how the processing of each fixture without teams ends
    all_events,              \* how process_regular_event ends for each collected item
    idx,                     \* position of the loop in progress
    team_events_processed,
    null_events_processed,
    successful_events,
    failed_events,
    store_reachable,         \* run: the document store answers
    log_records,                     \* run: the kinds of log_records records written
    cleanup,                 \* run: "pending", "deleted" or "failed"
    subreddits,              \* run: the categories get_categories_with_topics returned
    cat,                     \* run: position of the loop over the categories
    items_begun,             \* run: number of items whose processing has begun
    pacing_sleeps,           \* run: number of asyncio.sleep(2) calls made
    active,                  \* run: number of items begun and not finished
    steps_left,              \* run: the awaited calls the item in progress still makes
    current_date,            \* generate_question: datetime.now().date()
    four_months_later,       \* generate_question: the date computed for the prompt
    dpc,                     \* "idle", "start", "prompt", "raised" or "returned"
    log_buffer,              \* AsyncMongoDBHandler.log_buffer
    flush_tasks,             \* the _flush_logs coroutines started, in order of creation
    log_store,               \* the documents insert_many has written to the log store
    emitted,                 \* number of records passed to emit
    lpc                      \* "idle", "running", "closing" or "closed"

xvars == <<data, parser, extraction>>
gvars == <<fn, max_retries, stub, attempt, invocations, sleeps, gpc, result>>
ivars == <<IMAGE_SEARCH_DISABLED, IMAGE_SEARCH_COUNT, image_searches, wrapper_calls, image_url>>
pvars == <<store, item, ppc, parent_event_id, option_index, updated_options, ops, outcome,
           processed>>
svars == <<spc, search_attempt, requests_made, quota_hit>>
rvars == <<phase, organized_events, null_team_events, all_events, idx,
           team_events_processed, null_events_processed, successful_events, failed_events,
           store_reachable, log_records, cleanup, subreddits, cat, items_begun, pacing_sleeps,
           active, steps_left>>
dvars == <<current_date, four_months_later, dpc>>
lvars == <<log_buffer, flush_tasks, log_store, emitted, lpc>>
vars == <<data, parser, extraction, fn, max_retries, stub, attempt, invocations, sleeps,
          gpc, result, IMAGE_SEARCH_DISABLED, IMAGE_SEARCH_COUNT, image_searches,
          wrapper_calls, image_url, store, item, ppc, parent_event_id, option_index,
          updated_options, ops, outcome, processed, spc, search_attempt, requests_made,
          quota_hit, phase, organized_events, null_team_events, all_events, idx,
          team_events_processed, null_events_processed, successful_events, failed_events,
          store_reachable, log_records, cleanup, subreddits, cat, items_begun, pacing_sleeps,
          active, steps_left, current_date, four_months_later, dpc, log_buffer,
          flush_tasks, log_store, emitted, lpc>>

DateIdle == current_date = None /\ four_months_later = None /\ dpc = "idle"
LogIdle ==
    /\ log_buffer = << >> /\ flush_tasks = << >> /\ log_store = << >>
    /\ emitted = 0 /\ lpc = "idle"
ExtractIdle == data = << >> /\ parser = "none" /\ extraction = Retry
GenIdle ==
    /\ fn = "none" /\ max_retries = 0 /\ stub = << >> /\ attempt = 0
    /\ invocations = 0 /\ sleeps = 0 /\ gpc = "idle" /\ result = None
RunIdle ==
    /\ phase = "idle" /\ organized_events = << >> /\ null_team_events = << >>
    /\ all_events = << >> /\ idx = 0
    /\ team_events_processed = 0 /\ null_events_processed = 0
    /\ successful_events = 0 /\ failed_events = 0
    /\ store_reachable = TRUE /\ log_records = {} /\ cleanup = "pending"
    /\ subreddits = << >> /\ cat = 0
    /\ items_begun = 0 /\ pacing_sleeps = 0 /\ active = 0 /\ steps_left = 0
SearchIdle == spc = "idle" /\ search_attempt = 0 /\ requests_made = 0 /\ quota_hit = FALSE
RunStart ==
    /\ IMAGE_SEARCH_DISABLED = FALSE /\ IMAGE_SEARCH_COUNT = 0
    /\ image_searches = 0 /\ wrapper_calls = 0 /\ image_url = None
    /\ store = << >> /\ item = NoItem /\ ppc = "next"
    /\ parent_event_id = 0 /\ option_index = 0 /\ updated_options = << >>
    /\ ops = << >> /\ outcome = "none" /\ processed = 0
    /\ SearchIdle

\* ------------------------------------------------------------------------
\* Extraction alone: one completion, parsed by one of the generators
\* ------------------------------------------------------------------------
InitExtract == data \in Texts /\ parser = "none" /\ extraction = Retry /\ GenIdle /\ RunStart /\ RunIdle /\ DateIdle /\ LogIdle

ExtractQuestion ==
    /\ parser = "none"
    /\ parser' = "generate_question"
    /\ extraction' = ParseQuestion(data)
    /\ UNCHANGED <<data, gvars, ivars, pvars, svars, rvars, dvars, lvars>>

ExtractQuestionFromApi ==
    /\ parser = "none"
    /\ parser' = "generate_question_from_api"
    /\ extraction' = ParseQuestionFromApi(data, FixtureDate)
    /\ UNCHANGED <<data, gvars, ivars, pvars, svars, rvars, dvars, lvars>>

ExtractMultipleQuestion ==
    /\ parser = "none"
    /\ parser' = "generate_multiple_question"
    /\ extraction' = ParseMultipleQuestion(data)
    /\ UNCHANGED <<data, gvars, ivars, pvars, svars, rvars, dvars, lvars>>

NextExtract == ExtractQuestion \/ ExtractQuestionFromApi \/ ExtractMultipleQuestion

SpecExtract == InitExtract /\ [][NextExtract]_vars

\* ------------------------------------------------------------------------
\* The retry loops of the five generation steps
\* ------------------------------------------------------------------------
InitGen ==
    /\ RunIdle
    /\ ExtractIdle /\ RunStart /\ DateIdle /\ LogIdle
    /\ fn \in GenerationFns
    /\ max_retries \in 1..MaxRetries
    /\ stub \in [1..max_retries -> StubResponses(fn)]
    /\ attempt = 0 /\ invocations = 0 /\ sleeps = 0
    /\ gpc = "loop" /\ result = None

\* one iteration of the loop of generate_question or of
\* generate_question_from_api: the sleep follows every failed attempt
QuestionAttempt(f) ==
    /\ gpc = "loop" /\ fn = f /\ attempt < max_retries
    /\ invocations' = invocations + 1
    /\ LET response == stub[attempt + 1]
       IN IF response = RAISE \/ ParseOf(f, response).retry
          THEN /\ sleeps' = sleeps + 1
               /\ attempt' = attempt + 1
               /\ UNCHANGED <<gpc, result>>
          ELSE /\ gpc' = "returned"
               /\ result' = ParseOf(f, response).result
               /\ UNCHANGED <<attempt, sleeps>>
    /\ UNCHANGED <<xvars, ivars, pvars, fn, max_retries, stub, svars, rvars, dvars, lvars>>

GenerateQuestionAttempt == QuestionAttempt("generate_question")

GenerateQuestionFromApiAttempt == QuestionAttempt("generate_question_from_api")

\* an iteration that goes to the next attempt without the delay
GuardedSleepAttempt_NoSleep(f) ==
    /\ gpc = "loop" /\ fn = f /\ attempt < max_retries
    /\ invocations' = invocations + 1
    /\ LET response == stub[attempt + 1]
       IN IF response = RAISE \/ ParseOf(f, response).retry
          THEN /\ attempt' = attempt + 1
               /\ UNCHANGED <<gpc, result, sleeps>>
          ELSE /\ gpc' = "returned"
               /\ result' = ParseOf(f, response).result
               /\ UNCHANGED <<attempt, sleeps>>
    /\ UNCHANGED <<xvars, ivars, pvars, fn, max_retries, stub, svars, rvars, dvars, lvars>>

\* one iteration of the loop of generate_multiple_question, generate_rules
\* or generate_followup_question: no sleep after the last attempt
GuardedSleepAttempt(f) ==
    /\ gpc = "loop" /\ fn = f /\ attempt < max_retries
    /\ invocations' = invocations + 1
    /\ LET response == stub[attempt + 1]
       IN IF response = RAISE \/ ParseOf(f, response).retry
          THEN /\ sleeps' = IF attempt < max_retries - 1 THEN sleeps + 1 ELSE sleeps
               /\ attempt' = attempt + 1
               /\ UNCHANGED <<gpc, result>>
          ELSE /\ gpc' = "returned"
               /\ result' = ParseOf(f, response).result
               /\ UNCHANGED <<attempt, sleeps>>
    /\ UNCHANGED <<xvars, ivars, pvars, fn, max_retries, stub, svars, rvars, dvars, lvars>>

GenerateMultipleQuestionAttempt == GuardedSleepAttempt("generate_multiple_question")

GenerateRulesAttempt == GuardedSleepAttempt("generate_rules")

GenerateFollowupAttempt == GuardedSleepAttempt("generate_followup_question")

\* the return after the loop, once range(max_retries) is exhausted
RetriesExceeded ==
    /\ gpc = "loop" /\ attempt = max_retries
    /\ gpc' = "returned"
    /\ result' = NoResultOf(fn)
    /\ UNCHANGED <<xvars, ivars, pvars, fn, max_retries, stub, attempt, invocations, sleeps, svars, rvars, dvars, lvars>>

NextGen ==
    \/ GenerateQuestionAttempt
    \/ GenerateQuestionFromApiAttempt
    \/ GenerateMultipleQuestionAttempt
    \/ GenerateRulesAttempt
    \/ GenerateFollowupAttempt
    \/ RetriesExceeded

SpecGen == InitGen /\ [][NextGen]_vars

\* ------------------------------------------------------------------------
\* Processing and persistence of the items of a run
\* ------------------------------------------------------------------------
InitPersist == ExtractIdle /\ GenIdle /\ RunStart /\ RunIdle /\ DateIdle /\ LogIdle

\* one call of safe_google_image_search
CallImageSearch(search) ==
    LET w == SafeGoogleImageSearch(IMAGE_SEARCH_DISABLED, IMAGE_SEARCH_COUNT, search)
    IN /\ IMAGE_SEARCH_DISABLED' = w.disabled
       /\ IMAGE_SEARCH_COUNT' = w.count
       /\ image_searches' = image_searches + (IF w.invoked THEN 1 ELSE 0)
       /\ wrapper_calls' = wrapper_calls + 1
       /\ image_url' = w.ret

Op(op, kind, ok, option, id, modified, payload) ==
    [op |-> op, kind |-> kind, ok |-> ok, option |-> option, id |-> id,
     modified |-> modified, payload |-> payload]

\* an item that is always reported as not successful
EndItem_ReportsFalse(how) ==
    /\ outcome' = "False"
    /\ ppc' = "next"
    /\ processed' = processed + 1

\* the item ends: nothing more is done for it
EndItem(how) ==
    /\ outcome' = how
    /\ ppc' = "next"
    /\ processed' = processed + 1

\* a gate that lets an item without resolution date through
Gate_QuestionOnly(generated_question, end_date) == Truthy(generated_question)

\* "if not (generated_question and end_date): ... skip", negated
Gate(generated_question, end_date) == Truthy(generated_question) /\ Truthy(end_date)

\* a skip that leaves the item with an exception
Skipped_Raises(path) == "raised"

\* "logger.warning('... Skipping ...'); return False" of the two functions,
\* "continue" of the loop over organized_events
Skipped(path) == "False"

BeginItem ==
    /\ ppc = "next" /\ processed < MaxItems
    /\ ops' = << >> /\ parent_event_id' = 0 /\ option_index' = 0 /\ updated_options' = << >>
    /\ store' = << >> /\ image_url' = None /\ wrapper_calls' = 0

\* process_regular_event up to the dispatch on prob2
ProcessRegularEvent ==
    /\ BeginItem
    /\ \E loaded \in BOOLEAN, r \in RegularResults, summary_ok \in BOOLEAN :
         IF ~loaded
            THEN item' = [NoItem EXCEPT !.path = "regular"] /\ EndItem("False")
            ELSE IF ~summary_ok \/ ~Gate(r[1], r[4])
                 THEN /\ item' = [NoItem EXCEPT !.path = "regular", !.question = r[1],
                                                !.prob1 = r[2], !.prob2 = r[3], !.end_date = r[4]]
                      /\ EndItem(Skipped("regular"))
                 ELSE /\ item' = [path |-> "regular",
                                  kind |-> IF r[3].tag # "None" THEN "binary" ELSE "multi",
                                  question |-> r[1], prob1 |-> r[2], prob2 |-> r[3],
                                  end_date |-> r[4], description |-> SummaryText]
                      /\ ppc' = IF r[3].tag # "None" THEN "binary" ELSE "parent"
                      /\ UNCHANGED <<outcome, processed>>
    /\ UNCHANGED <<xvars, gvars, IMAGE_SEARCH_DISABLED, IMAGE_SEARCH_COUNT, image_searches, svars, rvars, dvars, lvars>>

\* process_sport_events, one fixture with teams, up to the test of prob2
ProcessSportEvent ==
    /\ BeginItem
    /\ \E r \in SportResults :
         LET it == [path |-> "sport", kind |-> "binary", question |-> r[1], prob1 |-> r[2],
                    prob2 |-> r[3], end_date |-> r[4], description |-> r[5]]
         IN IF ~Gate(r[1], r[4]) \/ r[3].tag = "None"
            THEN item' = [it EXCEPT !.kind = "none"] /\ EndItem(Skipped(it.path))
            ELSE item' = it /\ ppc' = "binary" /\ UNCHANGED <<outcome, processed>>
    /\ UNCHANGED <<xvars, gvars, IMAGE_SEARCH_DISABLED, IMAGE_SEARCH_COUNT, image_searches, svars, rvars, dvars, lvars>>

\* process_null_team_event up to the skip test
ProcessNullTeamEvent ==
    /\ BeginItem
    /\ \E r \in NullTeamResults :
         LET it == [path |-> "null_team", kind |-> "multi", question |-> r[1], prob1 |-> r[2],
                    prob2 |-> r[3], end_date |-> FixtureDate, description |-> r[4]]
         IN IF ~Gate(r[1], FixtureDate)
            THEN item' = [it EXCEPT !.kind = "none"] /\ EndItem(Skipped(it.path))
            ELSE item' = it /\ ppc' = "parent" /\ UNCHANGED <<outcome, processed>>
    /\ UNCHANGED <<xvars, gvars, IMAGE_SEARCH_DISABLED, IMAGE_SEARCH_COUNT, image_searches, svars, rvars, dvars, lvars>>

\* how an item ends when an exception leaves its try block: the scraped-page
\* functions return False, the sports functions let it reach the caller's
\* except clause
Failed(path) == IF path = "regular" THEN "False" ELSE "raised"

\* category=event["category_id"] of a scraped page, category=category_id of
\* the sports category for a fixture
EventCategory ==
    IF item.path = "regular" THEN PyStr(<<Text("category-politics")>>)
    ELSE PyStr(<<Text("category-sports")>>)

\* sport_key=None for a scraped page, sport_key=event["key"] for a fixture
EventSportKey == IF item.path = "regular" THEN None ELSE PyStr(<<Text("soccer_epl")>>)

EventEndDate == IF item.path = "regular" THEN ParseDate(item.end_date) ELSE item.end_date

BinaryEvent(rules, event_image) ==
    [is_child |-> FALSE, is_sport_page |-> item.path # "regular", has_options |-> FALSE,
     category |-> EventCategory, sport_key |-> EventSportKey,
     title |-> item.question, end_date |-> EventEndDate,
     event_description |-> item.description, rules |-> rules,
     probability_of_yes |-> item.prob1, probability_of_no |-> item.prob2,
     options |-> None, event_image |-> event_image]

\* an insert that replaces the stored document of the same title
InsertOne_ReplaceSameTitle(collection, document) ==
    IF \E i \in 1..Len(collection) : collection[i].title = document.title
    THEN LET i == CHOOSE i \in 1..Len(collection) : collection[i].title = document.title
         IN [collection EXCEPT ![i] = document]
    ELSE Append(collection, document)

\* collection.insert_one(event_data_dict) of save_event: the document gets a
\* new _id, here its position in the collection
InsertOne(collection, document) == Append(collection, document)

\* an EventData that refuses rules = None
RulesOptional_Required(rules) == rules # None

\* "rules: Optional[str] = None" of EventData: the value generate_rules
\* returned is accepted, None included
RulesOptional(rules) == TRUE

\* an upload whose exception leaves the save function
UploadCaught_Never(upload) == upload # "raise"

\* "try: ... = await upload_image_to_s3(...) except Exception as e:
\* logger.error(...)": the save goes on whatever the upload does
UploadCaught(upload) == TRUE

\* the upload that follows a wrapper call: made only for a link
Uploads(image) == IF Truthy(image) THEN UploadOutcomes ELSE {"none"}

\* a binary save that calls save_event again after a failed insert
SaveBinary_RetryInsert(path) ==
    /\ ppc = "binary" /\ item.path = path
    /\ \E search \in SearchOutcomes :
         /\ CallImageSearch(search)
         /\ IF ~ValidEventData(item.question, item.description)
            THEN /\ ops' = Append(ops, Op("build", "binary", FALSE, 0, 0, 0, << >>))
                 /\ EndItem(Failed(path))
                 /\ UNCHANGED store
            ELSE \/ \E rules \in RulesResults, upload \in Uploads(image_url') :
                      IF UploadCaught(upload) /\ RulesOptional(rules)
                      THEN /\ store' = InsertOne(store, BinaryEvent(rules, EventImage(image_url', upload)))
                           /\ ops' = Append(ops, Op("insert", "binary", TRUE, 0, Len(store) + 1, 0, << >>))
                           /\ EndItem("True")
                      ELSE /\ EndItem(Failed(path))
                           /\ UNCHANGED <<store, ops>>
                 \/ \E rules \in RulesResults, upload \in Uploads(image_url') :
                      IF UploadCaught(upload) /\ RulesOptional(rules)
                      THEN /\ store' = InsertOne(store, BinaryEvent(rules, EventImage(image_url', upload)))
                           /\ ops' = ops \o <<Op("insert", "binary", FALSE, 0, 0, 0, << >>),
                                              Op("insert", "binary", TRUE, 0, Len(store) + 1, 0, << >>)>>
                           /\ EndItem("True")
                      ELSE /\ EndItem(Failed(path))
                           /\ UNCHANGED <<store, ops>>
    /\ UNCHANGED <<xvars, gvars, item, parent_event_id, option_index, updated_options, svars, rvars, dvars, lvars>>

\* rules, image, EventData and save_event of a binary event
SaveBinary(path) ==
    /\ ppc = "binary" /\ item.path = path
    /\ \E search \in SearchOutcomes :
         /\ CallImageSearch(search)
         /\ IF ~ValidEventData(item.question, item.description)
            THEN /\ ops' = Append(ops, Op("build", "binary", FALSE, 0, 0, 0, << >>))
                 /\ EndItem(Failed(path))
                 /\ UNCHANGED store
            ELSE \/ \E rules \in RulesResults, upload \in Uploads(image_url') :
                      IF UploadCaught(upload) /\ RulesOptional(rules)
                      THEN /\ store' = InsertOne(store, BinaryEvent(rules, EventImage(image_url', upload)))
                           /\ ops' = Append(ops, Op("insert", "binary", TRUE, 0, Len(store) + 1, 0, << >>))
                           /\ EndItem("True")
                      ELSE /\ EndItem(Failed(path))
                           /\ UNCHANGED <<store, ops>>
                 \/ /\ ops' = Append(ops, Op("insert", "binary", FALSE, 0, 0, 0, << >>))
                    /\ EndItem(Failed(path))
                    /\ UNCHANGED store
    /\ UNCHANGED <<xvars, gvars, item, parent_event_id, option_index, updated_options, svars, rvars, dvars, lvars>>

\* save_binary_event
SaveBinaryEvent == SaveBinary("regular")

\* the binary branch of process_sport_events
SaveSportBinaryEvent == SaveBinary("sport")

ParentEvent(rules, event_image) ==
    [is_child |-> FALSE, is_sport_page |-> item.path # "regular", has_options |-> TRUE,
     category |-> EventCategory, sport_key |-> EventSportKey,
     title |-> item.question, end_date |-> EventEndDate,
     event_description |-> item.description, rules |-> rules,
     probability_of_yes |-> None, probability_of_no |-> None,
     options |-> None, event_image |-> event_image]

\* a parent step that goes on to the options after a failed insert
SaveParent_ContinueOnFailure ==
    /\ ppc = "parent"
    /\ \E search \in SearchOutcomes :
         /\ CallImageSearch(search)
         /\ IF ~ValidEventData(item.question, item.description)
            THEN /\ ops' = Append(ops, Op("build", "parent", FALSE, 0, 0, 0, << >>))
                 /\ EndItem(Failed(item.path))
                 /\ UNCHANGED <<store, parent_event_id, option_index>>
            ELSE \/ \E rules \in RulesResults, upload \in Uploads(image_url') :
                      IF UploadCaught(upload) /\ RulesOptional(rules)
                      THEN /\ store' = InsertOne(store, ParentEvent(rules, EventImage(image_url', upload)))
                           /\ ops' = Append(ops, Op("insert", "parent", TRUE, 0, Len(store) + 1, 0, << >>))
                           /\ parent_event_id' = Len(store) + 1
                           /\ option_index' = 1
                           /\ ppc' = "children"
                           /\ UNCHANGED <<outcome, processed>>
                      ELSE /\ EndItem(Failed(item.path))
                           /\ UNCHANGED <<store, ops, parent_event_id, option_index>>
                 \/ /\ ops' = Append(ops, Op("insert", "parent", FALSE, 0, 0, 0, << >>))
                    /\ option_index' = 1
                    /\ ppc' = "children"
                    /\ UNCHANGED <<store, parent_event_id, outcome, processed>>
    /\ UNCHANGED <<xvars, gvars, item, updated_options, svars, rvars, dvars, lvars>>

\* save_multi_option_event and process_null_team_event: rules, image,
\* EventData and save_event of the parent
SaveParent ==
    /\ ppc = "parent"
    /\ \E search \in SearchOutcomes :
         /\ CallImageSearch(search)
         /\ IF ~ValidEventData(item.question, item.description)
            THEN /\ ops' = Append(ops, Op("build", "parent", FALSE, 0, 0, 0, << >>))
                 /\ EndItem(Failed(item.path))
                 /\ UNCHANGED <<store, parent_event_id, option_index>>
            ELSE \/ \E rules \in RulesResults, upload \in Uploads(image_url') :
                      IF UploadCaught(upload) /\ RulesOptional(rules)
                      THEN /\ store' = InsertOne(store, ParentEvent(rules, EventImage(image_url', upload)))
                           /\ ops' = Append(ops, Op("insert", "parent", TRUE, 0, Len(store) + 1, 0, << >>))
                           /\ parent_event_id' = Len(store) + 1
                           /\ option_index' = 1
                           /\ ppc' = "children"
                           /\ UNCHANGED <<outcome, processed>>
                      ELSE /\ EndItem(Failed(item.path))
                           /\ UNCHANGED <<store, ops, parent_event_id, option_index>>
                 \/ /\ ops' = Append(ops, Op("insert", "parent", FALSE, 0, 0, 0, << >>))
                    /\ EndItem(Failed(item.path))
                    /\ UNCHANGED <<store, parent_event_id, option_index>>
    /\ UNCHANGED <<xvars, gvars, item, updated_options, svars, rvars, dvars, lvars>>

\* an option reference that loses the identity of the child
OptionData_NoMarket(option_name, option_prob, market) ==
    [option |-> option_name, probability |-> option_prob, market |-> 0]

\* an option reference that is given the id of the parent
OptionData_ParentAsMarket(option_name, option_prob, market) ==
    [option |-> option_name, probability |-> option_prob, market |-> parent_event_id]

\* an option reference that is always given the id of the first child
OptionData_FirstChildAsMarket(option_name, option_prob, market) ==
    [option |-> option_name, probability |-> option_prob, market |-> parent_event_id + 1]

\* OptionData(option=option_name, probability=option_prob, market=binary_event_id)
OptionData(option_name, option_prob, market) ==
    [option |-> option_name, probability |-> option_prob, market |-> market]

\* a loop over the options that stops after the first one
LoopDone_AfterFirst(index, options) == index > 1

\* "for option in options" has no option left
LoopDone(index, options) == index > Len(options)

\* an update issued whatever the children did
ShouldUpdate_Always(options) == TRUE

\* "if updated_options:"
ShouldUpdate(options) == options # << >>

\* a child that is given the probability of its option and no complement
ChildEvent_NoComplement(binary_title, rules, event_image, prob_yes) ==
    [is_child |-> TRUE, is_sport_page |-> item.path # "regular", has_options |-> FALSE,
     category |-> EventCategory, sport_key |-> EventSportKey,
     title |-> binary_title, end_date |-> EventEndDate,
     event_description |-> item.description, rules |-> rules,
     probability_of_yes |-> PyInt(prob_yes), probability_of_no |-> None,
     options |-> None, event_image |-> event_image]

\* binary_event_data = EventData(is_child=True, has_options=False, ...)
ChildEvent(binary_title, rules, event_image, prob_yes) ==
    [is_child |-> TRUE, is_sport_page |-> item.path # "regular", has_options |-> FALSE,
     category |-> EventCategory, sport_key |-> EventSportKey,
     title |-> binary_title, end_date |-> EventEndDate,
     event_description |-> item.description, rules |-> rules,
     probability_of_yes |-> PyInt(prob_yes), probability_of_no |-> PyInt(100 - prob_yes),
     options |-> None, event_image |-> event_image]

\* one iteration of "for option in options": follow-up question, image,
\* EventData and save_event of the child; any exception is caught and the
\* loop goes on
SaveChild ==
    /\ ppc = "children" /\ ~LoopDone(option_index, item.prob1.l)
    /\ \E binary_title \in FollowupResults, search \in SearchOutcomes :
         LET option == item.prob1.l[option_index]
         IN /\ CallImageSearch(search)
            /\ IF ~ValidEventData(binary_title, item.description)
               THEN /\ ops' = Append(ops, Op("build", "child", FALSE, option_index, 0, 0, << >>))
                    /\ UNCHANGED <<store, updated_options>>
               ELSE \/ \E rules \in RulesResults, upload \in Uploads(image_url') :
                         IF UploadCaught(upload) /\ RulesOptional(rules)
                         THEN /\ store' = InsertOne(store, ChildEvent(binary_title, rules,
                                                     EventImage(image_url', upload), option.probability))
                              /\ ops' = Append(ops, Op("insert", "child", TRUE, option_index,
                                                       Len(store) + 1, 0, << >>))
                              /\ updated_options' = Append(updated_options,
                                     OptionData(option.option, option.probability, Len(store) + 1))
                         ELSE /\ UNCHANGED <<store, ops, updated_options>>
                    \/ /\ ops' = Append(ops, Op("insert", "child", FALSE, option_index, 0, 0, << >>))
                       /\ UNCHANGED <<store, updated_options>>
    /\ option_index' = option_index + 1
    /\ UNCHANGED <<xvars, gvars, item, ppc, parent_event_id, outcome, processed, svars, rvars, dvars, lvars>>

\* a patch that loses the last option reference
PatchedOptions_DropLast(options) == PyList(SubSeq(options, 1, Len(options) - 1))

\* {"$set": {"options": [opt.dict() for opt in updated_options]}}
PatchedOptions(options) == PyList(options)

\* an update whose filter matches every document of the collection
UpdateOne_EveryDocument(collection, id, options) ==
    [i \in 1..Len(collection) |-> [collection[i] EXCEPT !.options = PatchedOptions(options)]]

\* db_collection.update_one({"_id": parent_id}, {"$set": {"options": ...}})
UpdateOne(collection, id, options) ==
    [collection EXCEPT ![id].options = PatchedOptions(options)]

\* what update_one can do: modify the document, report modified_count 0, or
\* raise
UpdateOutcomes == {"modified", "unmodified", "raise"}

\* an update step that repeats update_one after a modified count of zero
UpdateParent_RetryUnmodified ==
    /\ ppc = "children" /\ LoopDone(option_index, item.prob1.l)
    /\ IF ShouldUpdate(updated_options)
       THEN \E update \in UpdateOutcomes :
              /\ ops' = IF update = "unmodified"
                         THEN ops \o <<Op("update", "parent", TRUE, 0, parent_event_id, 0,
                                           updated_options),
                                        Op("update", "parent", TRUE, 0, parent_event_id, 1,
                                           updated_options)>>
                         ELSE Append(ops, Op("update", "parent", update # "raise", 0,
                                             parent_event_id,
                                             IF update = "modified" THEN 1 ELSE 0,
                                             updated_options))
              /\ store' = IF update # "raise"
                          THEN UpdateOne(store, parent_event_id, updated_options)
                          ELSE store
              /\ EndItem(IF update # "raise" THEN "True" ELSE "False")
       ELSE /\ EndItem("True")
            /\ UNCHANGED <<store, ops>>
    /\ UNCHANGED <<xvars, gvars, ivars, item, parent_event_id, option_index, updated_options, svars, rvars, dvars, lvars>>

\* the update of the parent after the loop, and the return of the function
UpdateParent ==
    /\ ppc = "children" /\ LoopDone(option_index, item.prob1.l)
    /\ IF ShouldUpdate(updated_options)
       THEN \E update \in UpdateOutcomes :
              /\ ops' = Append(ops, Op("update", "parent", update # "raise", 0, parent_event_id,
                                       IF update = "modified" THEN 1 ELSE 0, updated_options))
              /\ store' = IF update = "modified"
                          THEN UpdateOne(store, parent_event_id, updated_options)
                          ELSE store
              /\ EndItem(IF update = "modified" THEN "True" ELSE "False")
       ELSE /\ EndItem("True")
            /\ UNCHANGED <<store, ops>>
    /\ UNCHANGED <<xvars, gvars, ivars, item, parent_event_id, option_index, updated_options, svars, rvars, dvars, lvars>>

NextPersist ==
    \/ ProcessRegularEvent
    \/ ProcessSportEvent
    \/ ProcessNullTeamEvent
    \/ SaveBinaryEvent
    \/ SaveSportBinaryEvent
    \/ SaveParent
    \/ SaveChild
    \/ UpdateParent

SpecPersist == InitPersist /\ [][NextPersist]_vars

\* ------------------------------------------------------------------------
\* The image search as shipped: safe_google_image_search over
\* google_image_search and GoogleSearchService.search_image
\* ------------------------------------------------------------------------
\* largest number of safe_google_image_search calls of a run
MaxSearchCalls == 4

\* what the provider answers to one requests.get: 200 with a downloadable
\* link, 200 without one, HTTP 429, another HTTP error status, or no answer
ProviderResponses == {"link", "no_link", "http429", "http500", "timeout"}

InitSearch == ExtractIdle /\ GenIdle /\ RunStart /\ RunIdle /\ DateIdle /\ LogIdle

\* the globals and the return value of the wrapper once google_image_search
\* has ended with the given outcome
WrapperReturns(search) ==
    /\ CallImageSearch(search)
    /\ spc' = "idle"
    /\ search_attempt' = 0

\* safe_google_image_search returns None before the try block: the flag is
\* set or the cap is reached
SafeSearchSkipped ==
    /\ spc = "idle" /\ wrapper_calls < MaxSearchCalls
    /\ ~SafeGoogleImageSearch(IMAGE_SEARCH_DISABLED, IMAGE_SEARCH_COUNT, "none").invoked
    /\ WrapperReturns("none")
    /\ UNCHANGED <<xvars, gvars, pvars, requests_made, quota_hit, rvars, dvars, lvars>>

\* safe_google_image_search enters google_image_search: the constructor of
\* GoogleSearchService raises ValueError without credentials, otherwise
\* search_image starts its loop
SafeSearchEnters ==
    /\ spc = "idle" /\ wrapper_calls < MaxSearchCalls
    /\ SafeGoogleImageSearch(IMAGE_SEARCH_DISABLED, IMAGE_SEARCH_COUNT, "none").invoked
    /\ \E configured \in BOOLEAN :
         IF configured
         THEN /\ spc' = "search"
              /\ search_attempt' = 1
              /\ UNCHANGED ivars
         ELSE WrapperReturns("error")
    /\ UNCHANGED <<xvars, gvars, pvars, requests_made, quota_hit, rvars, dvars, lvars>>

\* one iteration of the loop of search_image: requests.get and
\* raise_for_status inside "try ... except Exception", which logs every
\* error, the HTTP 429 included, and goes on to the next attempt
SearchImageAttempt ==
    /\ spc = "search" /\ search_attempt <= DEFAULT_RETRY_COUNT
    /\ requests_made' = requests_made + 1
    /\ \E response \in ProviderResponses :
         /\ quota_hit' = (quota_hit \/ response = "http429")
         /\ IF response = "link"
            THEN WrapperReturns("url")
            ELSE /\ search_attempt' = search_attempt + 1
                 /\ UNCHANGED <<spc, ivars>>
    /\ UNCHANGED <<xvars, gvars, pvars, rvars, dvars, lvars>>

\* search_image returns None after its loop
SearchImageExhausted ==
    /\ spc = "search" /\ search_attempt > DEFAULT_RETRY_COUNT
    /\ WrapperReturns("none")
    /\ UNCHANGED <<xvars, gvars, pvars, requests_made, quota_hit, rvars, dvars, lvars>>

NextSearch ==
    \/ SafeSearchSkipped
    \/ SafeSearchEnters
    \/ SearchImageAttempt
    \/ SearchImageExhausted

SpecSearch == InitSearch /\ [][NextSearch]_vars

\* ------------------------------------------------------------------------
\* The loops over the items of a run: process_sport_events and main
\* ------------------------------------------------------------------------
\* largest number of items of each of the three lists of a run
MaxEvents == 2

\* largest number of awaited calls left to an item when it begins
MaxSubSteps == 1

\* records passed to emit in a run
MaxLogRecords == 4

\* the batch_size of the AsyncMongoDBHandler of the run
batch_size == 2

\* how the processing of one item ends: it returns True (saved), it returns
\* False or skips the item, or an exception leaves it
ItemOutcomes == {"True", "False", "raised"}

\* the categories of a run, in the order of the dictionary: a category named
\* sports, a category with topics (one topic here), a category without
CategoryLists ==
    {<< >>, <<"regular">>, <<"sports">>, <<"no_topics">>, <<"regular", "regular">>,
     <<"sports", "regular">>, <<"regular", "sports">>, <<"no_topics", "regular">>}

InitRun ==
    /\ ExtractIdle /\ GenIdle /\ RunStart /\ DateIdle /\ LogIdle
    /\ phase = "cleanup"
    /\ store_reachable \in BOOLEAN
    /\ log_records = {} /\ cleanup = "pending"
    /\ subreddits = << >> /\ cat = 0
    /\ organized_events = << >> /\ null_team_events = << >> /\ all_events = << >>
    /\ idx = 0
    /\ team_events_processed = 0 /\ null_events_processed = 0
    /\ successful_events = 0 /\ failed_events = 0
    /\ items_begun = 0 /\ pacing_sleeps = 0 /\ active = 0 /\ steps_left = 0

\* a cleanup whose failure leaves main
CleanupFailureCaught_Never(ok) == ok

\* "except Exception as e: logger.warning(...)" around cleanup_all_logs
CleanupFailureCaught(ok) == TRUE

\* what main and the __main__ block log_records when an exception leaves main
FatalRecords == {"ERROR Critical error in main function", "CRITICAL Script failed"}

\* cleanup_all_logs at the start of main: it deletes the log_records entries, or it
\* logs the failure and raises
CleanupLogs ==
    /\ phase = "cleanup"
    /\ \E ok \in BOOLEAN :
         /\ ok => store_reachable
         /\ cleanup' = IF ok THEN "deleted" ELSE "failed"
         /\ IF CleanupFailureCaught(ok)
            THEN /\ phase' = "categories"
                 /\ log_records' = IF ok THEN log_records
                           ELSE log_records \cup {"ERROR Failed to cleanup all logs",
                                          "WARNING Log cleanup failed"}
            ELSE /\ phase' = "fatal"
                 /\ log_records' = log_records \cup {"ERROR Failed to cleanup all logs"} \cup FatalRecords
    /\ UNCHANGED <<xvars, gvars, ivars, pvars, svars, dvars, lvars, organized_events, null_team_events,
                   all_events, idx, team_events_processed, null_events_processed,
                   successful_events, failed_events, store_reachable, subreddits, cat,
                   items_begun, pacing_sleeps, active, steps_left>>

\* get_categories_with_topics: the categories of the store, or {} after
\* "except Exception as e: logger.error(...); return {}"
GetCategories ==
    /\ phase = "categories"
    /\ IF store_reachable
       THEN subreddits' \in CategoryLists /\ UNCHANGED log_records
       ELSE /\ subreddits' = << >>
            /\ log_records' = log_records \cup {"ERROR Error retrieving categories and topics"}
    /\ phase' = "collect" /\ cat' = 1
    /\ UNCHANGED <<xvars, gvars, ivars, pvars, svars, dvars, lvars, organized_events, null_team_events,
                   all_events, idx, team_events_processed, null_events_processed,
                   successful_events, failed_events, store_reachable, cleanup,
                   items_begun, pacing_sleeps, active, steps_left>>

\* a category without topics: "if not topics: ... continue"
SkipCategory ==
    /\ phase = "collect" /\ cat <= Len(subreddits) /\ subreddits[cat] = "no_topics"
    /\ cat' = cat + 1
    /\ UNCHANGED <<xvars, gvars, ivars, pvars, svars, dvars, lvars, phase, organized_events,
                   null_team_events, all_events, idx, team_events_processed,
                   null_events_processed, successful_events, failed_events,
                   store_reachable, log_records, cleanup, subreddits, items_begun, pacing_sleeps,
                   active, steps_left>>

\* a category with topics: the rows google_search finds are appended to
\* all_events (none when the search raises), each with the way
\* process_regular_event will end for it
CollectCategory ==
    /\ phase = "collect" /\ cat <= Len(subreddits) /\ subreddits[cat] = "regular"
    /\ \E found \in SeqsUpTo(ItemOutcomes, MaxEvents - Len(all_events)) :
         all_events' = all_events \o found
    /\ cat' = cat + 1
    /\ UNCHANGED <<xvars, gvars, ivars, pvars, svars, dvars, lvars, phase, organized_events,
                   null_team_events, idx, team_events_processed, null_events_processed,
                   successful_events, failed_events, store_reachable, log_records, cleanup,
                   subreddits, items_begun, pacing_sleeps, active, steps_left>>

\* the category named sports: process_sport_events fetches and organizes the
\* fixtures; null_team_events is drawn when its loop begins
FetchSportsData ==
    /\ phase = "collect" /\ cat <= Len(subreddits) /\ subreddits[cat] = "sports"
    /\ organized_events' \in SeqsUpTo(ItemOutcomes, MaxEvents)
    /\ null_team_events' = << >>
    /\ phase' = "sports_team" /\ idx' = 1
    /\ team_events_processed' = 0 /\ null_events_processed' = 0
    /\ UNCHANGED <<xvars, gvars, ivars, pvars, svars, dvars, lvars, all_events, successful_events,
                   failed_events, store_reachable, log_records, cleanup, subreddits, cat,
                   items_begun, pacing_sleeps, active, steps_left>>

\* fetch_sports_data or organize_sports_events raises: process_sport_events
\* logs and re-raises, the except clause of main around the category catches
SportsFetchFails ==
    /\ phase = "collect" /\ cat <= Len(subreddits) /\ subreddits[cat] = "sports"
    /\ cat' = cat + 1
    /\ log_records' = log_records \cup {"ERROR Critical error in process_sport_events",
                        "ERROR Error processing category"}
    /\ UNCHANGED <<xvars, gvars, ivars, pvars, svars, dvars, lvars, phase, organized_events,
                   null_team_events, all_events, idx, team_events_processed,
                   null_events_processed, successful_events, failed_events,
                   store_reachable, cleanup, subreddits, items_begun, pacing_sleeps,
                   active, steps_left>>

\* a loop that starts an item while another is in progress
Awaited_Never(n) == n < 2

\* "await": the loop goes on only when the coroutine of the item has returned
Awaited(n) == n = 0

\* the body of one of the three loops is entered for the item at idx
StartItem(loop, list) ==
    /\ phase = loop /\ idx <= Len(list)
    /\ Awaited(active)
    /\ active' = active + 1
    /\ items_begun' = items_begun + 1
    /\ steps_left' \in 0..MaxSubSteps
    /\ UNCHANGED <<xvars, gvars, ivars, pvars, svars, dvars, lvars, phase, organized_events,
                   null_team_events, all_events, idx, team_events_processed,
                   null_events_processed, successful_events, failed_events,
                   store_reachable, log_records, cleanup, subreddits, cat, pacing_sleeps>>

StartTeamEvent == StartItem("sports_team", organized_events)

StartNullTeamItem == StartItem("sports_null", null_team_events)

StartCollectedEvent == StartItem("events", all_events)

\* one awaited call of the item in progress: a model call, an upload, a
\* store write
ItemStep ==
    /\ active > 0 /\ steps_left > 0
    /\ steps_left' = steps_left - 1
    /\ UNCHANGED <<xvars, gvars, ivars, pvars, svars, dvars, lvars, phase, organized_events,
                   null_team_events, all_events, idx, team_events_processed,
                   null_events_processed, successful_events, failed_events,
                   store_reachable, log_records, cleanup, subreddits, cat, items_begun,
                   pacing_sleeps, active>>

\* a loop whose except clause lets the exception of an item through
Caught_ReturnValuesOnly(how) == how # "raised"

\* "except Exception as e: logger.error(...); continue" around the body of
\* each of the three loops
Caught(how) == TRUE

\* the log_records records of an item that ended as how
ItemRecords(how) == IF how = "raised" THEN {"ERROR Error processing item"} ELSE {}

\* the end of one iteration of "for event in organized_events"
ProcessTeamEvent ==
    /\ phase = "sports_team" /\ idx <= Len(organized_events)
    /\ active > 0 /\ steps_left = 0
    /\ active' = active - 1
    /\ LET how == organized_events[idx]
       IN IF Caught(how)
          THEN /\ team_events_processed' = team_events_processed + (IF how = "True" THEN 1 ELSE 0)
               /\ idx' = idx + 1
               /\ log_records' = log_records \cup ItemRecords(how)
               /\ UNCHANGED phase
          ELSE /\ phase' = "fatal"
               /\ log_records' = log_records \cup FatalRecords
               /\ UNCHANGED <<team_events_processed, idx>>
    /\ UNCHANGED <<xvars, gvars, ivars, pvars, svars, dvars, lvars, organized_events, null_team_events,
                   all_events, null_events_processed, successful_events, failed_events,
                   store_reachable, cleanup, subreddits, cat, items_begun, pacing_sleeps,
                   steps_left>>

\* the loop over organized_events is over and the list is not read again
TeamEventsDone ==
    /\ phase = "sports_team" /\ idx > Len(organized_events)
    /\ organized_events' = << >>
    /\ null_team_events' \in SeqsUpTo(ItemOutcomes, MaxEvents)
    /\ phase' = "sports_null" /\ idx' = 1
    /\ UNCHANGED <<xvars, gvars, ivars, pvars, svars, dvars, lvars,
                   all_events, team_events_processed, null_events_processed,
                   successful_events, failed_events, store_reachable, log_records, cleanup,
                   subreddits, cat, items_begun, pacing_sleeps, active, steps_left>>

\* the end of one iteration of "for event in null_team_events"
ProcessNullTeamItem ==
    /\ phase = "sports_null" /\ idx <= Len(null_team_events)
    /\ active > 0 /\ steps_left = 0
    /\ active' = active - 1
    /\ LET how == null_team_events[idx]
       IN IF Caught(how)
          THEN /\ null_events_processed' = null_events_processed + (IF how = "True" THEN 1 ELSE 0)
               /\ idx' = idx + 1
               /\ log_records' = log_records \cup ItemRecords(how)
               /\ UNCHANGED phase
          ELSE /\ phase' = "fatal"
               /\ log_records' = log_records \cup FatalRecords
               /\ UNCHANGED <<null_events_processed, idx>>
    /\ UNCHANGED <<xvars, gvars, ivars, pvars, svars, dvars, lvars, organized_events, null_team_events,
                   all_events, team_events_processed, successful_events, failed_events,
                   store_reachable, cleanup, subreddits, cat, items_begun, pacing_sleeps,
                   steps_left>>

\* process_sport_events logs its two counters and returns, its locals are
\* gone: the loop over the categories goes on
NullTeamEventsDone ==
    /\ phase = "sports_null" /\ idx > Len(null_team_events)
    /\ phase' = "collect" /\ cat' = cat + 1
    /\ null_team_events' = << >>
    /\ team_events_processed' = 0 /\ null_events_processed' = 0
    /\ UNCHANGED <<xvars, gvars, ivars, pvars, svars, dvars, lvars, organized_events,
                   all_events, idx,
                   successful_events, failed_events, store_reachable, log_records, cleanup,
                   subreddits, items_begun, pacing_sleeps, active, steps_left>>

\* the orders random.shuffle can leave a list in
Shuffles(list) ==
    {p \in [1..Len(list) -> Range(list)] :
        \E f \in [1..Len(list) -> 1..Len(list)] :
            /\ \A i, j \in 1..Len(list) : f[i] = f[j] => i = j
            /\ \A i \in 1..Len(list) : p[i] = list[f[i]]}

\* every category is collected: random.shuffle(all_events) and the counters
ShuffleEvents ==
    /\ phase = "collect" /\ cat > Len(subreddits)
    /\ all_events' \in Shuffles(all_events)
    /\ successful_events' = 0 /\ failed_events' = 0
    /\ phase' = "events" /\ idx' = 1
    /\ UNCHANGED <<xvars, gvars, ivars, pvars, svars, dvars, lvars, organized_events, null_team_events,
                   team_events_processed, null_events_processed, store_reachable, log_records,
                   cleanup, subreddits, cat, items_begun, pacing_sleeps, active, steps_left>>

\* the end of one iteration of "for i, event in enumerate(all_events, 1)" of
\* main: asyncio.sleep(2) follows the counters inside the try block
ProcessCollectedEvent ==
    /\ phase = "events" /\ idx <= Len(all_events)
    /\ active > 0 /\ steps_left = 0
    /\ active' = active - 1
    /\ LET how == all_events[idx]
       IN IF Caught(how)
          THEN /\ successful_events' = successful_events + (IF how = "True" THEN 1 ELSE 0)
               /\ failed_events' = failed_events + (IF how = "True" THEN 0 ELSE 1)
               /\ pacing_sleeps' = pacing_sleeps + (IF how = "raised" THEN 0 ELSE 1)
               /\ idx' = idx + 1
               /\ log_records' = log_records \cup ItemRecords(how)
               /\ UNCHANGED phase
          ELSE /\ phase' = "fatal"
               /\ log_records' = log_records \cup FatalRecords
               /\ UNCHANGED <<successful_events, failed_events, pacing_sleeps, idx>>
    /\ UNCHANGED <<xvars, gvars, ivars, pvars, svars, dvars, lvars, organized_events, null_team_events,
                   all_events, team_events_processed, null_events_processed,
                   store_reachable, cleanup, subreddits, cat, items_begun, steps_left>>

\* the loop of main has no item left: main returns
RunEnds ==
    /\ phase = "events" /\ idx > Len(all_events)
    /\ phase' = "done"
    /\ UNCHANGED <<xvars, gvars, ivars, pvars, svars, dvars, lvars, organized_events, null_team_events,
                   all_events, idx, team_events_processed, null_events_processed,
                   successful_events, failed_events, store_reachable, log_records, cleanup,
                   subreddits, cat, items_begun, pacing_sleeps, active, steps_left>>

NextRun ==
    \/ CleanupLogs
    \/ GetCategories
    \/ SkipCategory
    \/ CollectCategory
    \/ FetchSportsData
    \/ SportsFetchFails
    \/ StartTeamEvent
    \/ StartNullTeamItem
    \/ StartCollectedEvent
    \/ ItemStep
    \/ ProcessTeamEvent
    \/ TeamEventsDone
    \/ ProcessNullTeamItem
    \/ NullTeamEventsDone
    \/ ShuffleEvents
    \/ ProcessCollectedEvent
    \/ RunEnds

SpecRun == InitRun /\ [][NextRun]_vars

\* ------------------------------------------------------------------------
\* The dates generate_question puts in its prompt
\* ------------------------------------------------------------------------
\* the years the current date is drawn from: a year before a leap year, and
\* a leap year
Years == {2027, 2028}

ValueError == [tag |-> "ValueError"]

\* calendar.isleap, as datetime.date applies it
IsLeap(year) == year % 4 = 0 /\ (year % 100 # 0 \/ year % 400 = 0)

\* the number of days datetime.date accepts in the month
DaysInMonth(year, month) ==
    IF month = 2 THEN (IF IsLeap(year) THEN 29 ELSE 28)
    ELSE IF month \in {4, 6, 9, 11} THEN 30 ELSE 31

\* the values datetime.date accepts
ValidDate(d) ==
    /\ d # ValueError
    /\ d.month \in 1..12
    /\ d.day \in 1..DaysInMonth(d.year, d.month)

\* the dates datetime.now().date() can give
Dates ==
    {d \in [year : Years, month : 1..12, day : 1..31] : d.day <= DaysInMonth(d.year, d.month)}

\* date.replace(year=..., month=...): the day is kept, and a date the
\* calendar does not have raises ValueError
DateReplace(d, year, month) ==
    IF month \in 1..12 /\ d.day <= DaysInMonth(year, month)
    THEN [year |-> year, month |-> month, day |-> d.day]
    ELSE ValueError

\* "current_date.replace(month=current_date.month + 4) if current_date.month
\* <= 8 else current_date.replace(year=current_date.year + 1,
\* month=(current_date.month + 4) % 12)"
FourMonthsLater(d) ==
    IF d.month <= 8
    THEN DateReplace(d, d.year, d.month + 4)
    ELSE DateReplace(d, d.year + 1, (d.month + 4) % 12)

InitDate ==
    /\ ExtractIdle /\ GenIdle /\ RunStart /\ RunIdle /\ LogIdle
    /\ current_date \in Dates
    /\ four_months_later = None
    /\ dpc = "start"

\* generate_question up to its retry loop: the dates are computed outside
\* every try block, so a ValueError leaves the function
ComputeDates ==
    /\ dpc = "start"
    /\ four_months_later' = FourMonthsLater(current_date)
    /\ dpc' = IF four_months_later' = ValueError THEN "raised" ELSE "prompt"
    /\ UNCHANGED <<current_date, xvars, gvars, ivars, pvars, svars, rvars, lvars>>

\* the retry loop of generate_question ends with a result or with no result
GenerateQuestionReturns ==
    /\ dpc = "prompt"
    /\ dpc' \in {"result", "no_result"}
    /\ UNCHANGED <<current_date, four_months_later, xvars, gvars, ivars, pvars, svars,
                   rvars, lvars>>

NextDate == ComputeDates \/ GenerateQuestionReturns

SpecDate == InitDate /\ [][NextDate]_vars

\* ------------------------------------------------------------------------
\* AsyncMongoDBHandler: the log buffer and its flush tasks
\* ------------------------------------------------------------------------
\* a _flush_logs coroutine: who started it, where it stands, and its local
\* logs_to_insert
FlushTask(owner, pc) == [owner |-> owner, pc |-> pc, logs_to_insert |-> << >>]

\* emit: the entry is appended to the buffer, and a full buffer starts a
\* flush task; st is the buffer with the tasks, id the record
EmitInto(st, id) ==
    LET buffer == Append(st.log_buffer, id)
    IN [log_buffer |-> buffer,
        flush_tasks |-> IF Len(buffer) >= batch_size
                        THEN Append(st.flush_tasks, FlushTask("emit", "created"))
                        ELSE st.flush_tasks]

\* the position of a flush task becomes pc
TaskAt(tasks, t, pc) == [tasks EXCEPT ![t].pc = pc]

InitLog ==
    /\ ExtractIdle /\ GenIdle /\ RunStart /\ RunIdle /\ DateIdle
    /\ log_buffer = << >> /\ flush_tasks = << >> /\ log_store = << >>
    /\ emitted = 0
    /\ lpc = "running"

\* a logging call of the run: AsyncMongoDBHandler.emit
Emit ==
    /\ lpc = "running"
    /\ emitted < MaxLogRecords
    /\ emitted' = emitted + 1
    /\ LET st == EmitInto([log_buffer |-> log_buffer, flush_tasks |-> flush_tasks],
                          emitted + 1)
       IN log_buffer' = st.log_buffer /\ flush_tasks' = st.flush_tasks
    /\ UNCHANGED <<log_store, lpc, xvars, gvars, ivars, pvars, svars, rvars, dvars>>

\* a flush task begins to run: "if not self.log_buffer: return", then it
\* waits for _get_collection
FlushStart ==
    \E t \in 1..Len(flush_tasks) :
        /\ lpc \in {"running", "closing"}
        /\ flush_tasks[t].pc = "created"
        /\ flush_tasks' = TaskAt(flush_tasks, t,
                                 IF log_buffer = << >> THEN "returned" ELSE "get_collection")
        /\ UNCHANGED <<log_buffer, log_store, emitted, lpc, xvars, gvars, ivars, pvars,
                       svars, rvars, dvars>>

\* the flush awaited by close_async has ended: close_async returns
Closes(t) == IF flush_tasks[t].owner = "close_async" THEN "closed" ELSE lpc

\* _get_collection has answered: the task copies the buffer as it is now and
\* calls insert_many, which refuses an empty list
FlushCopyBuffer ==
    \E t \in 1..Len(flush_tasks) :
        /\ lpc \in {"running", "closing"}
        /\ flush_tasks[t].pc = "get_collection"
        /\ IF log_buffer = << >>
           THEN /\ flush_tasks' = TaskAt(flush_tasks, t, "failed")
                /\ lpc' = Closes(t)
           ELSE /\ flush_tasks' = [flush_tasks EXCEPT ![t].pc = "insert_many",
                                                      ![t].logs_to_insert = log_buffer]
                /\ lpc' = lpc
        /\ UNCHANGED <<log_buffer, log_store, emitted, xvars, gvars, ivars, pvars, svars,
                       rvars, dvars>>

\* _get_collection raises: get_database_connection and get_collection each
\* log an error, which emit buffers, and _flush_logs prints the failure
FlushGetCollectionFails ==
    \E t \in 1..Len(flush_tasks) :
        /\ lpc \in {"running", "closing"}
        /\ flush_tasks[t].pc = "get_collection"
        /\ emitted + 2 <= MaxLogRecords
        /\ emitted' = emitted + 2
        /\ LET st == EmitInto(EmitInto([log_buffer |-> log_buffer,
                                        flush_tasks |-> TaskAt(flush_tasks, t, "failed")],
                                       emitted + 1), emitted + 2)
           IN log_buffer' = st.log_buffer /\ flush_tasks' = st.flush_tasks
        /\ lpc' = Closes(t)
        /\ UNCHANGED <<log_store, xvars, gvars, ivars, pvars, svars, rvars, dvars>>

\* insert_many has written the copies: "self.log_buffer.clear()"
FlushInsertMany ==
    \E t \in 1..Len(flush_tasks) :
        /\ lpc \in {"running", "closing"}
        /\ flush_tasks[t].pc = "insert_many"
        /\ log_store' = log_store \o flush_tasks[t].logs_to_insert
        /\ log_buffer' = << >>
        /\ flush_tasks' = TaskAt(flush_tasks, t, "inserted")
        /\ lpc' = Closes(t)
        /\ UNCHANGED <<emitted, xvars, gvars, ivars, pvars, svars, rvars, dvars>>

\* insert_many raises: the failure is printed and the buffer is kept
FlushInsertManyFails ==
    \E t \in 1..Len(flush_tasks) :
        /\ lpc \in {"running", "closing"}
        /\ flush_tasks[t].pc = "insert_many"
        /\ flush_tasks' = TaskAt(flush_tasks, t, "failed")
        /\ lpc' = Closes(t)
        /\ UNCHANGED <<log_buffer, log_store, emitted, xvars, gvars, ivars, pvars, svars,
                       rvars, dvars>>

\* the finally block of main: close_async awaits _flush_logs, which returns
\* at once on an empty buffer
CloseAsync ==
    /\ lpc = "running"
    /\ IF log_buffer = << >>
       THEN lpc' = "closed" /\ flush_tasks' = flush_tasks
       ELSE /\ lpc' = "closing"
            /\ flush_tasks' = Append(flush_tasks, FlushTask("close_async", "get_collection"))
    /\ UNCHANGED <<log_buffer, log_store, emitted, xvars, gvars, ivars, pvars, svars,
                   rvars, dvars>>

NextLog ==
    \/ Emit
    \/ FlushStart
    \/ FlushCopyBuffer
    \/ FlushGetCollectionFails
    \/ FlushInsertMany
    \/ FlushInsertManyFails
    \/ CloseAsync

SpecLog == InitLog /\ [][NextLog]_vars

\* ------------------------------------------------------------------------
\* Properties
\* ------------------------------------------------------------------------
\* the parse of a completion gives a result with a probability
Usable(f, response) ==
    /\ response # RAISE
    /\ ~ParseOf(f, response).retry
    /\ IF f \in QuestionFns
       THEN ParseOf(f, response).result[2].tag # "None"
       ELSE ParseOf(f, response).result.tag # "None"

\* the completion is a text whose extraction fails: markers missing, or
\* markers present but no valid probability
ExtractionFails(f, response) == response # RAISE /\ ~Usable(f, response)

\* C1: with max_retries = 3, an invalid text on attempt 1 and a valid text on
\* attempt 2 give exactly 2 model invocations and the extraction of attempt 2
C1_RetryShortCircuit ==
    ( /\ gpc = "returned"
      /\ fn \in {"generate_question", "generate_question_from_api"}
      /\ max_retries = DEFAULT_RETRY_COUNT
      /\ ExtractionFails(fn, stub[1])
      /\ Usable(fn, stub[2]) )
    => (invocations = 2 /\ result = ParseOf(fn, stub[2]).result)

\* C2: a model that always returns unparseable text makes the step return the
\* uniform no-result value after exactly max_retries model invocations
C2_RetryTermination ==
    ( /\ gpc = "returned"
      /\ fn \in {"generate_question", "generate_multiple_question", "generate_rules"}
      /\ \A i \in 1..max_retries : ExtractionFails(fn, stub[i]) )
    => (invocations = max_retries /\ result = NoResultOf(fn))

Count(s, P(_)) == Cardinality({i \in 1..Len(s) : P(s[i])})

\* the Yes/No entries of a whole text, when it holds exactly one of each
OnlyYes(text) == text[CHOOSE i \in 1..Len(text) : IsYes(text[i])].number
OnlyNo(text) == text[CHOOSE i \in 1..Len(text) : IsNo(text[i])].number

ReturnsPair(n, m) ==
    /\ ~extraction.retry
    /\ extraction.result[2] = PyInt(n)
    /\ extraction.result[3] = PyInt(m)

ReturnsNoProbability ==
    \/ extraction.retry
    \/ extraction.result[2].tag = "None" /\ extraction.result[3].tag = "None"

BinaryParsers == {"generate_question", "generate_question_from_api"}

\* C3 as stated: any text with the "Generated Question:" marker and a Yes/No
\* pair gives that pair when it sums to 100, and no probability otherwise
C3_AnyTextWithPair ==
    ( /\ parser \in BinaryParsers
      /\ GQ \in Range(data)
      /\ Count(data, IsYes) = 1 /\ Count(data, IsNo) = 1 )
    => IF OnlyYes(data) + OnlyNo(data) = 100
       THEN ReturnsPair(OnlyYes(data), OnlyNo(data))
       ELSE ReturnsNoProbability

\* the text between the first "Probability:" and the first "Market
\* Resolution Date:" marker, or the end of the text without the latter
SectionOfClaim(text) ==
    LET from == CHOOSE i \in 1..Len(text) : text[i] = PR /\ \A j \in 1..(i - 1) : text[j] # PR
        upto == IF \E i \in 1..Len(text) : text[i] = MRD
                THEN CHOOSE i \in 1..Len(text) : text[i] = MRD /\ \A j \in 1..(i - 1) : text[j] # MRD
                ELSE Len(text) + 1
    IN [i \in 1..(IF upto > from THEN upto - from - 1 ELSE 0) |-> text[from + i]]

FirstYes(section) ==
    section[CHOOSE i \in 1..Len(section) : IsYes(section[i]) /\ \A j \in 1..(i - 1) : ~IsYes(section[j])].number
FirstNo(section) ==
    section[CHOOSE i \in 1..Len(section) : IsNo(section[i]) /\ \A j \in 1..(i - 1) : ~IsNo(section[j])].number

\* C3, amended: a text with the "Generated Question:" and "Probability:"
\* markers (and the date marker, for generate_question) whose probability
\* section holds a Yes and a No entry gives the first Yes and the first No
\* value of that section when they sum to 100, and no probability otherwise
C3_PairInProbabilitySection ==
    ( /\ parser \in BinaryParsers
      /\ GQ \in Range(data) /\ PR \in Range(data)
      /\ parser = "generate_question" => MRD \in Range(data)
      /\ Count(SectionOfClaim(data), IsYes) > 0
      /\ Count(SectionOfClaim(data), IsNo) > 0 )
    => LET n == FirstYes(SectionOfClaim(data))
           m == FirstNo(SectionOfClaim(data))
       IN IF n + m = 100 THEN ReturnsPair(n, m) ELSE ReturnsNoProbability

\* a pair summing to 100 is returned from a section that holds further
\* entries
C3_Witness ==
    /\ parser = "generate_question_from_api"
    /\ ReturnsPair(60, 40)
    /\ Count(data, IsNo) = 2

\* C4: no extraction that accepts multi-option probabilities returns an
\* option set with a placeholder option name
C4_PlaceholderRejected ==
    ( /\ parser \in {"generate_question", "generate_multiple_question"}
      /\ ~extraction.retry
      /\ extraction.result[2].tag = "list" )
    => \A i \in 1..Len(extraction.result[2].l) :
          Lower(extraction.result[2].l[i].option) \notin VagueNames

\* ---- persistence ----
\* an item has just finished
Done == ppc = "next" /\ processed > 0

OpsWhere(P(_)) == {i \in 1..Len(ops) : P(ops[i])}
IsParentInsert(o) == o.op = "insert" /\ o.kind = "parent"
IsChildInsert(o) == o.op = "insert" /\ o.kind = "child"
IsBinaryInsert(o) == o.op = "insert" /\ o.kind = "binary"
IsUpdate(o) == o.op = "update"
IsStoreOp(o) == o.op \in {"insert", "update"}
IsFailedBuild(o) == o.op = "build"
IsChildStep(o) == o.kind = "child"

NumOptions == Len(item.prob1.l)

EveryStoreOpSucceeds == \A i \in OpsWhere(IsStoreOp) : ops[i].ok

ExactFanOut ==
    /\ Cardinality(OpsWhere(IsParentInsert)) = 1
    /\ Cardinality(OpsWhere(IsChildInsert)) = NumOptions
    /\ Cardinality(OpsWhere(IsUpdate)) = 1
    /\ Cardinality(OpsWhere(IsStoreOp)) = NumOptions + 2

\* C5 as stated: a multi-option result with N options whose store operations
\* all succeed gives 1 parent insert, N child inserts and 1 parent update
C5_FanOutWhenStoreSucceeds ==
    (Done /\ item.kind = "multi" /\ EveryStoreOpSucceeds) => ExactFanOut

\* C5, amended: a multi-option result with N options in which the parent and
\* every child Event is constructed and every store operation succeeds gives
\* exactly 1 parent insert, N child inserts and 1 parent update, and no
\* other store write
C5_FanOutWhenBuiltAndStored ==
    (Done /\ item.kind = "multi" /\ EveryStoreOpSucceeds /\ OpsWhere(IsFailedBuild) = {})
        => ExactFanOut

C5_Witness ==
    /\ Done /\ item.kind = "multi" /\ NumOptions = 3
    /\ EveryStoreOpSucceeds /\ OpsWhere(IsFailedBuild) = {}
    /\ Len(ops) = 5 /\ ops[5].op = "update" /\ ops[5].modified = 1

\* the options whose child insert succeeded, as the loop met them
RECURSIVE SavedOptions(_)
SavedOptions(log) ==
    IF log = << >> THEN << >>
    ELSE IF IsChildInsert(log[1]) /\ log[1].ok
         THEN <<[option |-> item.prob1.l[log[1].option].option,
                 probability |-> item.prob1.l[log[1].option].probability,
                 market |-> log[1].id]>> \o SavedOptions(Tail(log))
         ELSE SavedOptions(Tail(log))

\* the options the loop has handled, in the order it handled them
ChildSteps == SelectSeq(ops, IsChildStep)

\* C6: a failing child does not stop the loop, and the parent patch holds
\* exactly the options whose child insert succeeded, in their original order,
\* each with its original probability and the identity of its own child
C6_PatchHoldsSavedChildren ==
    /\ (Done /\ item.kind = "multi" /\ \E i \in OpsWhere(IsParentInsert) : ops[i].ok)
          => /\ Len(ChildSteps) = NumOptions
             /\ \A k \in 1..NumOptions : ChildSteps[k].option = k
    /\ \A i \in OpsWhere(IsUpdate) :
          /\ ops[i].payload = SavedOptions(ops)
          /\ \A k \in 1..Len(ops[i].payload) :
                /\ ops[i].payload[k].market \in 1..Len(store)
                /\ store[ops[i].payload[k].market].is_child
                /\ store[ops[i].payload[k].market].probability_of_yes
                      = PyInt(ops[i].payload[k].probability)
          /\ ops[i].modified = 1 => store[ops[i].id].options = PyList(SavedOptions(ops))

\* the second of three children fails and the patch holds the other two
C6_Witness ==
    /\ Done /\ item.kind = "multi" /\ NumOptions = 3
    /\ Len(ChildSteps) = 3
    /\ ChildSteps[1].ok /\ ~ChildSteps[2].ok /\ ChildSteps[3].ok
    /\ \E i \in OpsWhere(IsUpdate) :
          /\ Len(ops[i].payload) = 2
          /\ ops[i].payload[1].option = "Alpha" /\ ops[i].payload[2].option = "Gamma"

\* C7 as stated: a binary result gives exactly one store insert, no child
\* insert and no update
C7_BinaryOneInsert ==
    (Done /\ item.kind = "binary")
        => /\ Cardinality(OpsWhere(IsBinaryInsert)) = 1
           /\ Cardinality(OpsWhere(IsStoreOp)) = 1

\* C7, amended: a binary result whose Event is constructed gives exactly one
\* store insert, no child insert and no update; a binary result whose Event
\* is refused by the validation of EventData (a fixture result without event
\* description) gives no store write; the Event of a scraped page is always
\* constructed
C7_BinaryOneInsertWhenBuilt ==
    (Done /\ item.kind = "binary")
        => /\ IF OpsWhere(IsFailedBuild) = {}
              THEN /\ Cardinality(OpsWhere(IsBinaryInsert)) = 1
                   /\ Cardinality(OpsWhere(IsStoreOp)) = 1
              ELSE OpsWhere(IsStoreOp) = {}
           /\ item.path = "regular" => OpsWhere(IsFailedBuild) = {}

\* the pair 60/40 of a scraped page, stored by one insert
C7_Witness ==
    /\ Done /\ item.kind = "binary" /\ item.path = "regular"
    /\ Len(ops) = 1 /\ IsBinaryInsert(ops[1]) /\ ops[1].ok
    /\ store[ops[1].id].probability_of_yes = PyInt(60)
    /\ store[ops[1].id].probability_of_no = PyInt(40)

\* C8: a failed parent insert ends the item: no child insert and no update
\* follows, and the item is reported as failed
C8_ParentFailureAborts ==
    \A i \in OpsWhere(IsParentInsert) :
        ~ops[i].ok => (Len(ops) = i /\ ppc = "next" /\ outcome \in {"False", "raised"})

C8_Witness ==
    /\ Done /\ item.kind = "multi"
    /\ Len(ops) = 1 /\ IsParentInsert(ops[1]) /\ ~ops[1].ok

\* C9: the parent insert precedes every child insert; the update is the
\* last operation, issued once, after every option was handled, and only if
\* a child insert succeeded
C9_PersistOrder ==
    /\ \A i \in OpsWhere(IsChildStep) :
          \E j \in 1..(i - 1) : IsParentInsert(ops[j]) /\ ops[j].ok
    /\ \A i \in OpsWhere(IsUpdate) :
          /\ i = Len(ops)
          /\ OpsWhere(IsUpdate) = {i}
          /\ {ops[j].option : j \in OpsWhere(IsChildStep)} = 1..NumOptions
          /\ \E j \in 1..(i - 1) : IsChildInsert(ops[j]) /\ ops[j].ok

\* every child of the item failed and no update was issued
C9_Witness ==
    /\ Done /\ item.kind = "multi" /\ NumOptions >= 2
    /\ Len(ChildSteps) = NumOptions
    /\ \A k \in 1..NumOptions : ~ChildSteps[k].ok
    /\ OpsWhere(IsUpdate) = {}
    /\ \E k \in 1..NumOptions : IsChildInsert(ChildSteps[k])

\* C10: once the disabled flag is set it stays set, google_image_search is
\* not invoked any more and every wrapper call returns None
C10_DisabledIsSticky ==
    [][IMAGE_SEARCH_DISABLED =>
          /\ IMAGE_SEARCH_DISABLED'
          /\ image_searches' = image_searches
          /\ wrapper_calls' = wrapper_calls + 1 => image_url' = None]_vars

\* a wrapper call was short-circuited by the flag, not by the cap
C10_Witness ==
    /\ IMAGE_SEARCH_DISABLED
    /\ wrapper_calls > image_searches
    /\ IMAGE_SEARCH_COUNT < MAX_IMAGE_SEARCHES_PER_RUN


\* ---- image search as shipped ----
\* C11: once the provider has answered a request with HTTP 429 and the
\* wrapper call has returned, the disabled flag is set and no further
\* request is sent to the provider
C11_QuotaDisablesSearch ==
    [][(quota_hit /\ spc = "idle")
          => (IMAGE_SEARCH_DISABLED /\ requests_made' = requests_made)]_vars


\* ---- items and the store ----
\* C12: an item that ends before its first insert (no content, no generation
\* result, no question or no resolution date) is skipped and has written
\* nothing to the store
C12_SkippedWritesNothing ==
    (Done /\ ~(Truthy(item.question) /\ Truthy(item.end_date)))
        => (ops = << >> /\ store = << >> /\ outcome = "False")

\* a scraped page with a question and an empty resolution date was skipped
C12_Witness ==
    /\ Done /\ item.path = "regular"
    /\ Truthy(item.question) /\ item.end_date = PyStr(<< >>)
    /\ ops = << >> /\ store = << >> /\ outcome = "False"


\* C13: every stored Event with has_options = false, top-level or child, has
\* both probabilities set, each in 0..100, with sum 100
C13_BinaryProbabilities ==
    \A i \in 1..Len(store) :
        ~store[i].has_options
            => /\ store[i].probability_of_yes.tag = "int"
               /\ store[i].probability_of_no.tag = "int"
               /\ store[i].probability_of_yes.n \in 0..100
               /\ store[i].probability_of_no.n \in 0..100
               /\ store[i].probability_of_yes.n + store[i].probability_of_no.n = 100

\* the child of a 30% option is stored with 30/70
C13_Witness ==
    \E i \in 1..Len(store) :
        /\ store[i].is_child /\ ~store[i].has_options
        /\ store[i].probability_of_yes = PyInt(30)
        /\ store[i].probability_of_no = PyInt(70)


\* every child of the finished item was inserted and the update modified
\* the parent
FullySaved ==
    /\ Cardinality({i \in OpsWhere(IsChildInsert) : ops[i].ok}) = NumOptions
    /\ \E i \in OpsWhere(IsUpdate) : ops[i].modified = 1

\* C14 as stated: once its item has finished, every stored Event with
\* has_options = true has a non-empty options list with probabilities in
\* 0..100 and total 100
C14_ParentOptionsTotal100 ==
    Done => \A i \in 1..Len(store) :
                store[i].has_options
                    => /\ store[i].options.tag = "list"
                       /\ store[i].options.l # << >>
                       /\ SumProb(store[i].options.l) = 100

\* C14, amended: once its item has finished, a stored Event with
\* has_options = true whose children were all inserted and whose update
\* modified it has one option per generated option, each probability in
\* 0..100, total 100; after a partial failure its options are unset or a
\* non-empty list of the saved options with total at most 100
C14_ParentOptionsWhenFullySaved ==
    Done => \A i \in 1..Len(store) :
                store[i].has_options
                    => IF FullySaved
                       THEN /\ store[i].options.tag = "list"
                            /\ Len(store[i].options.l) = NumOptions
                            /\ \A k \in 1..NumOptions :
                                  store[i].options.l[k].probability \in 0..100
                            /\ SumProb(store[i].options.l) = 100
                       ELSE \/ store[i].options.tag = "None"
                            \/ /\ store[i].options.tag = "list"
                               /\ store[i].options.l # << >>
                               /\ SumProb(store[i].options.l) <= 100

\* a parent with its three options 50/30/20 attached
C14_Witness ==
    /\ Done /\ item.kind = "multi" /\ FullySaved
    /\ \E i \in 1..Len(store) :
          /\ store[i].has_options
          /\ store[i].options.tag = "list"
          /\ Len(store[i].options.l) = 3
          /\ SumProb(store[i].options.l) = 100


\* C15: every market stored in the options of a parent Event is the id of a
\* stored Event with is_child = true and the category and sport_key of the
\* parent
C15_MarketReferencesChild ==
    \A i \in 1..Len(store) :
        store[i].options.tag = "list"
            => \A k \in 1..Len(store[i].options.l) :
                  LET market == store[i].options.l[k].market
                  IN /\ market \in 1..Len(store)
                     /\ store[market].is_child
                     /\ store[market].category = store[i].category
                     /\ store[market].sport_key = store[i].sport_key

\* the parent of a fixture without teams holds the references of two children
C15_Witness ==
    \E i \in 1..Len(store) :
        /\ store[i].options.tag = "list"
        /\ Len(store[i].options.l) = 2
        /\ store[i].sport_key.tag = "str"
        /\ store[i].options.l[1].market # store[i].options.l[2].market


\* the updates of the finished item that modified the parent
ModifyingUpdates == {i \in OpsWhere(IsUpdate) : ops[i].modified = 1}

\* C16 as stated: the parent of a finished multi-option item was mutated
\* exactly once after its insert
C16_ParentMutatedExactlyOnce ==
    (Done /\ item.kind = "multi" /\ \E i \in OpsWhere(IsParentInsert) : ops[i].ok)
        => Cardinality(ModifyingUpdates) = 1

\* C16, amended: while an item is processed, the only stored Event that
\* changes is its parent, once, from unset options to the attached options,
\* after every option has been attempted; the parent of a finished item was
\* mutated at most once, and not at all when no child was saved
C16_ParentMutatedAtMostOnce ==
    /\ [][ppc # "next"
            => \A i \in 1..Len(store) :
                  /\ i <= Len(store')
                  /\ store'[i] # store[i]
                        => /\ i = parent_event_id
                           /\ store[i].has_options /\ ~store[i].is_child
                           /\ store[i].options = None
                           /\ store'[i] = [store[i] EXCEPT !.options = store'[i].options]
                           /\ LoopDone(option_index, item.prob1.l)]_vars
    /\ []((Done /\ item.kind = "multi")
            => /\ Cardinality(ModifyingUpdates) <= 1
               /\ updated_options = << >> => OpsWhere(IsUpdate) = {})

\* a parent whose options were attached although one of its two children
\* failed
C16_Witness ==
    /\ Done /\ item.kind = "multi" /\ NumOptions = 2
    /\ Cardinality(ModifyingUpdates) = 1
    /\ Len(updated_options) = 1
    /\ store[parent_event_id].options = PyList(updated_options)


\* C17: no step deletes or overwrites a stored Event: the identities in the
\* store only grow, an insert adds one new identity, every stored document
\* keeps everything but its options, and the steps between two items issue
\* no store operation
C17_EventsOnlyGrow ==
    [][IF ppc = "next"
       THEN ops' = << >>
       ELSE /\ Len(store') \in {Len(store), Len(store) + 1}
            /\ \A i \in 1..Len(store) :
                  store'[i] = [store[i] EXCEPT !.options = store'[i].options]
            /\ \A k \in 1..Len(ops') : ops'[k].op \in {"build", "insert", "update"}]_vars

\* a parent and two children are stored under three identities
C17_Witness ==
    /\ Len(store) = 3
    /\ store[1].has_options /\ store[2].is_child /\ store[3].is_child
    /\ store[2].title = store[3].title


\* ---- retry discipline ----
\* C18: generate_rules returns no result only after max_retries model
\* invocations; a completion that cleaning leaves empty is followed by a
\* new invocation while attempts remain
C18_EmptyRulesRetried ==
    (gpc = "returned" /\ fn = "generate_rules" /\ result = None)
        => invocations = max_retries


\* C19: each of the five generation steps returns either the extraction of
\* its first usable completion or, after max_retries invocations that all
\* failed, its no-result value; every failed attempt that is followed by a
\* new attempt is followed by the delay first
C19_UniformRetryDiscipline ==
    (gpc = "returned" /\ fn \in GenerationFns)
        => /\ \A i \in 1..(invocations - 1) : ~Usable(fn, stub[i])
           /\ IF Usable(fn, stub[invocations])
              THEN result = ParseOf(fn, stub[invocations]).result
              ELSE invocations = max_retries /\ result = NoResultOf(fn)
           /\ sleeps >= invocations - 1


\* ---- the loops of a run ----
\* C20: no item ends the run or reaches the fatal tier; every item of a
\* loop is processed, and when the loop of main has ended
\* successful_events + failed_events is the number of collected items
C20_ItemFailureIsContained ==
    /\ phase # "fatal"
    /\ phase = "sports_null" => idx <= Len(null_team_events) + 1
    /\ phase = "events"
          => successful_events + failed_events = idx - 1
    /\ phase = "done"
          => /\ idx = Len(all_events) + 1
             /\ successful_events + failed_events = Len(all_events)
             /\ successful_events = Cardinality({k \in 1..Len(all_events) : all_events[k] = "True"})

\* the run ended after an item that raised and an item that was saved
C20_Witness ==
    /\ phase = "done"
    /\ all_events = <<"raised", "True">>
    /\ "sports" \in Range(subreddits)
    /\ items_begun > 2
    /\ successful_events = 1 /\ failed_events = 1

\* ---- the start of a run ----
\* the run is over: main returned, or an exception left it
RunOver == phase \in {"done", "fatal"}

\* C21: when the document store is unreachable at the start, the run ends
\* with the exception leaving main and a record of critical severity, and
\* does not complete normally
C21_UnreachableStoreIsFatal ==
    (~store_reachable /\ RunOver)
        => (phase = "fatal" /\ "CRITICAL Script failed" \in log_records)

\* the phases of the main run: collection and processing of the items
MainRunPhases == {"categories", "collect", "sports_team", "sports_null", "events", "done"}

\* C22: after a failed log cleanup the warning is logged and the run is in
\* its collection or processing of the items, never ended by the failure
C22_CleanupFailureIsWarning ==
    cleanup = "failed"
        => /\ "WARNING Log cleanup failed" \in log_records
           /\ phase \in MainRunPhases
           /\ FatalRecords \cap log_records = {}

\* the cleanup failed on a store that answers afterwards, and the run went
\* on to save a collected item
C22_Witness ==
    /\ cleanup = "failed" /\ store_reachable
    /\ phase = "done" /\ successful_events = 1

\* C23: an item begins only when no item is in progress and the item before
\* it has made all of its awaited calls, so at most one item is in progress
C23_OneItemAtATime ==
    [][items_begun' # items_begun => (active = 0 /\ steps_left = 0 /\ active' = 1)]_vars

\* the second collected item is in progress, after the first one ended
C23_Witness ==
    /\ phase = "events" /\ idx = 2 /\ items_begun >= 2
    /\ active = 1 /\ steps_left = 1

\* C28: no item is processed while a category with topics is still to be
\* collected, and consecutive items are separated by the pacing delay
C28_EnumerateThenProcess ==
    /\ items_begun > 0
          => \A k \in 1..Len(subreddits) : (k > cat \/ (k = cat /\ phase = "collect"))
                                              => subreddits[k] # "regular"
    /\ items_begun <= pacing_sleeps + 1

\* C24: the step that meets a generation result without a usable question or
\* a usable resolution date ends the item as not successful, with no
\* exception, no image search, no Event constructed and nothing stored
C24_GateSkipsWithoutCrash ==
    [][(processed' = processed + 1
          /\ ~(Truthy(item'.question) /\ Truthy(item'.end_date)))
         => /\ outcome' = "False"
            /\ ops' = << >> /\ store' = << >>
            /\ wrapper_calls' = 0 /\ image_searches' = image_searches]_vars

\* a fixture without teams whose generation gave no question was skipped
C24_Witness ==
    /\ Done /\ item.path = "null_team"
    /\ item.question = None
    /\ outcome = "False" /\ ops = << >> /\ store = << >>

\* C25: a save step fails to insert its Event only when EventData or
\* save_event fails, never because of the image search or the upload; the
\* Event it inserts carries the stored URL or no image, and no image when the
\* search gave no link
C25_ImageFailureKeepsInsert ==
    [][wrapper_calls' = wrapper_calls + 1
         => /\ store' = store
                 => /\ Len(ops') = Len(ops) + 1
                    /\ ops'[Len(ops')].op \in {"build", "insert"}
                    /\ ~ops'[Len(ops')].ok
            /\ store' # store
                 => /\ Len(store') = Len(store) + 1
                    /\ store'[Len(store')].event_image \in {None, StoredUrl}
                    /\ image_url' = None => store'[Len(store')].event_image = None]_vars

\* the search gave a link, the upload failed, and the binary Event is stored
\* without image
C25_Witness ==
    /\ Done /\ item.kind = "binary" /\ outcome = "True"
    /\ image_url = ImageUrl
    /\ Len(store) = 1 /\ store[1].event_image = None

\* ---- the question text ----
\* q cut after its first question mark
UpToFirstQuestionMark(q) ==
    SubSeq(q, 1, CHOOSE i \in 1..Len(q) :
                     HasQuestionMark(q[i]) /\ \A j \in 1..(i - 1) : ~HasQuestionMark(q[j]))

\* C26: whichever generator parsed the completion, a returned question whose
\* source text (between "Generated Question:" and the next marker) holds a
\* question mark is that text cut after its first question mark
C26_QuestionCutAtFirstQuestionMark ==
    (/\ parser # "none"
     /\ GQ \in Range(data)
     /\ ~extraction.retry
     /\ extraction.result[1] # None
     /\ \E i \in 1..Len(QuestionPart(data)) : HasQuestionMark(QuestionPart(data)[i]))
        => extraction.result[1] = PyStr(UpToFirstQuestionMark(QuestionPart(data)))

\* the update_one calls that reported a modified count of zero
UnmodifiedUpdates == {i \in OpsWhere(IsUpdate) : ops[i].ok /\ ops[i].modified = 0}

\* C27: an update of the parent that reports a modified count of zero is the
\* last store operation of its item: the item ends as not successful, the
\* parent keeps the options it was inserted with, and every child inserted
\* before is still in the store
C27_UnmodifiedUpdateIsNotRepaired ==
    \A i \in UnmodifiedUpdates :
        /\ i = Len(ops)
        /\ ppc = "next" /\ outcome = "False"
        /\ store[ops[i].id].options = None
        /\ \A j \in OpsWhere(IsChildInsert) :
              ops[j].ok => (ops[j].id \in 1..Len(store) /\ store[ops[j].id].is_child)

\* two children were inserted and the update then modified nothing
C27_Witness ==
    /\ Done /\ UnmodifiedUpdates # {}
    /\ Cardinality({j \in OpsWhere(IsChildInsert) : ops[j].ok}) = 2
    /\ Len(store) = 3

\* ---- the image-search budget ----
\* C29: the counter and the number of google_image_search calls never exceed
\* MAX_IMAGE_SEARCHES_PER_RUN, and a wrapper call made when the counter has
\* reached the cap returns no image and invokes no search
C29_ImageSearchCap ==
    /\ [](IMAGE_SEARCH_COUNT <= MAX_IMAGE_SEARCHES_PER_RUN
            /\ image_searches <= MAX_IMAGE_SEARCHES_PER_RUN)
    /\ [][(IMAGE_SEARCH_COUNT >= MAX_IMAGE_SEARCHES_PER_RUN
             /\ wrapper_calls' = wrapper_calls + 1)
            => /\ image_url' = None
               /\ image_searches' = image_searches
               /\ IMAGE_SEARCH_COUNT' = IMAGE_SEARCH_COUNT]_vars

\* the wrapper was called once more after the searches had used up the cap,
\* with the search never disabled
C29_Witness ==
    /\ IMAGE_SEARCH_COUNT = MAX_IMAGE_SEARCHES_PER_RUN
    /\ image_searches = MAX_IMAGE_SEARCHES_PER_RUN
    /\ wrapper_calls > MAX_IMAGE_SEARCHES_PER_RUN
    /\ ~IMAGE_SEARCH_DISABLED /\ image_url = None

\* ---- a model call that raises ----
\* every answer of the stub is an exception of the model call
ModelAlwaysFails == \A i \in 1..max_retries : stub[i] = RAISE

InsertsWithoutRules ==
    /\ SaveBinaryEvent \/ SaveSportBinaryEvent \/ SaveParent \/ SaveChild
    /\ Len(store') = Len(store) + 1
    /\ store'[Len(store')].rules = None

\* a save step is due and its EventData can be constructed
SaveDue ==
    \/ ppc \in {"binary", "parent"} /\ ValidEventData(item.question, item.description)
    \/ ppc = "children" /\ ~LoopDone(option_index, item.prob1.l)

\* C31: whenever a binary, parent or child Event is about to be saved, the
\* step in which generate_rules gives None and the Event is inserted with
\* rules unset is possible; and every stored Event has the generated rules or
\* none
C31_NoRulesStillInserts ==
    /\ \A i \in 1..Len(store) : store[i].rules \in RulesResults
    /\ SaveDue => ENABLED InsertsWithoutRules

\* a parent and a child were both inserted without rules
C31_Witness ==
    /\ Len(store) >= 2
    /\ store[1].has_options /\ store[1].rules = None
    /\ store[2].is_child /\ store[2].rules = None

\* ---- children and their references ----
\* the stored child Events of the item
StoredChildren == {i \in 1..Len(store) : store[i].is_child}

\* the options stored on the parent of the item
StoredParentOptions ==
    IF parent_event_id \in 1..Len(store) /\ store[parent_event_id].options.tag = "list"
    THEN store[parent_event_id].options.l
    ELSE << >>

\* the options of the parent whose market is the child i
ReferencesTo(i) == {k \in 1..Len(StoredParentOptions) : StoredParentOptions[k].market = i}

\* C32 as stated: once a multi-option item has finished, every child Event
\* inserted for it is the market of exactly one option stored on its parent
C32_EveryChildReferenced ==
    (Done /\ item.kind = "multi")
        => \A i \in StoredChildren : Cardinality(ReferencesTo(i)) = 1

\* C32, amended: once a multi-option item has finished with an options
\* update that modified the parent, every child Event inserted for it is the
\* market of exactly one option stored on its parent; when the update
\* modified nothing or raised, the stored children are referenced by nothing
C32_EveryChildReferencedWhenPatched ==
    (Done /\ item.kind = "multi")
        => IF ModifyingUpdates # {}
           THEN \A i \in StoredChildren : Cardinality(ReferencesTo(i)) = 1
           ELSE StoredParentOptions = << >>

\* two of three children were inserted and both are referenced by the parent
C32_Witness ==
    /\ Done /\ item.kind = "multi" /\ NumOptions = 3
    /\ ModifyingUpdates # {}
    /\ Cardinality(StoredChildren) = 2
    /\ \A i \in StoredChildren : Cardinality(ReferencesTo(i)) = 1

\* ---- what a failed item leaves behind ----
\* a scraped-page item has finished and main counts it as failed
CountedFailed == Done /\ item.path = "regular" /\ outcome # "True"

\* C33 as stated: an item that main counts as failed has left no Event in
\* the store
C33_FailedItemLeavesNothing == CountedFailed => store = << >>

\* C33, amended: an item that main counts as failed has left no Event in the
\* store, unless its last store operation is an options update that modified
\* nothing or raised; then its parent, without options, and the children
\* inserted before are in the store
C33_FailedItemLeavesNothingUnlessPatchFailed ==
    (CountedFailed /\ store # << >>)
        => /\ item.kind = "multi"
           /\ IsUpdate(ops[Len(ops)]) /\ ops[Len(ops)].modified = 0
           /\ store[1].has_options /\ store[1].options = None
           /\ StoredChildren = 2..Len(store) /\ Len(store) >= 2

\* an item counted as failed after its update raised, with its parent and
\* two children stored
C33_Witness ==
    /\ CountedFailed /\ Len(store) = 3
    /\ IsUpdate(ops[Len(ops)]) /\ ~ops[Len(ops)].ok

\* C34: on every current calendar date, the date four months later that
\* generate_question computes is a valid calendar date with its month in
\* 1..12, and the computation does not raise: generate_question goes on to
\* return a result or no result
C34_FourMonthsLaterIsValid ==
    dpc \notin {"idle", "start"} =>
        /\ dpc # "raised"
        /\ ValidDate(four_months_later)
        /\ four_months_later.month \in 1..12

\* the month computed is in 1..12 on every date; the day is what fails
FourMonthsLaterMonthInRange ==
    \A d \in Dates :
        (IF d.month <= 8 THEN d.month + 4 ELSE (d.month + 4) % 12) \in 1..12

\* close_async has returned and its flush printed no failure
CloseSucceeded ==
    /\ lpc = "closed"
    /\ \A t \in 1..Len(flush_tasks) :
           flush_tasks[t].owner = "close_async" => flush_tasks[t].pc = "inserted"

\* no flush of the run has failed
NoFlushFailed == \A t \in 1..Len(flush_tasks) : flush_tasks[t].pc # "failed"

\* C35: under every interleaving of emit calls with flush tasks in flight,
\* every record passed to emit is in the log store by the time a successful
\* close_async returns
C35_NoLogRecordLost ==
    (CloseSucceeded /\ NoFlushFailed) => \A r \in 1..emitted : r \in Range(log_store)

\* C36: under every interleaving of emit calls with flush tasks in flight,
\* no record is inserted into the log store more than once
C36_NoLogRecordInsertedTwice ==
    \A i, j \in 1..Len(log_store) : i # j => log_store[i] # log_store[j]

\* generate_question has returned a question that is not None
QuestionReturned ==
    /\ parser = "generate_question"
    /\ ~extraction.retry
    /\ extraction.result[1] # None

\* "if prob2 is not None" of process_regular_event: what save_multi_option_event
\* receives as its options, when it is the function called
DispatchedOptions(r) == IF r[3] # None THEN << >> ELSE <<r[2]>>

\* C37: a result of generate_question whose question is not None is
\* (int prob_yes, int prob_no) or (non-empty option list, prob_no unset), so
\* the dispatch on "prob2 is not None" passes only non-empty lists as the
\* options of a multi-option event
C37_ResultHasOneOfTwoShapes ==
    QuestionReturned =>
        LET r == extraction.result
        IN /\ \/ r[2].tag = "int" /\ r[3].tag = "int"
              \/ r[2].tag = "list" /\ r[2].l # << >> /\ r[3] = None
           /\ \A options \in Range(DispatchedOptions(r)) :
                  options.tag = "list" /\ options.l # << >>

C37_Witness ==
    /\ QuestionReturned
    /\ extraction.result[3] = None
    /\ DispatchedOptions(extraction.result) = <<extraction.result[2]>>
    /\ Len(extraction.result[2].l) > 1

\* C38: every Event the scraped-content path has inserted (binary, parent or
\* child) has an end_date that is not None
C38_PersistedEventsHaveEndDate ==
    item.path = "regular" => \A i \in 1..Len(store) : store[i].end_date # None

====
